---- MODULE Spec2Model ----
(***************************************************************************)
(* Model of the WhatsApp AI sales bot (debounce / escalation revision of   *)
(* server.js, kept in src/unnamed/part_000).                               *)
(*                                                                         *)
(* Time is discrete.  Every instant the program stores (a deadline, a      *)
(* timer's due time, lastReplyAt) is kept relative to the current instant, *)
(* so Date.now() reads 0 and a tick of the clock moves every stored        *)
(* instant one unit towards the past.  A deadline that has passed stays at *)
(* 0 and an instant further back than the longest interval compared with   *)
(* it stays there: the program's comparisons cannot tell the difference.   *)
(* The program's durations are scaled to small numbers of ticks that keep  *)
(* their order:                                                            *)
(*   DEBOUNCE_WAIT_MS < HOT_INTERVAL_MS < SEND_TIMEOUT_MS                  *)
(*     < OPENAI_TIMEOUT_MS < SPAM_INTERVAL_MS < HUMAN_OVERRIDE_MS          *)
(*     < ESCALATION_MS < FOLLOWUP_T1_MS < FOLLOWUP_T2_MS < CLOSING_MS.     *)
(* MAX_HISTORY, the number of exchanges the history keeps, is scaled to 1   *)
(* so that a second exchange reaches the cap.                              *)
(* A text is a sequence of tokens, " " being a token of its own; a keyword *)
(* is a sequence of tokens and String.includes is contiguous containment.  *)
(***************************************************************************)
EXTENDS Integers, Sequences, FiniteSets, TLC

\* ------------------------------------------------------------------ bounds
MaxEvents == 2
\* nudge delivery calls counted per participant (the count stops there)
MaxNudgeLog == 3
\* webhook events of each participant when two participants are active
MaxEventsEach == 1
\* messages in the array of one webhook request
MaxBatch == 2

\* --------------------------------------------------------- program constants
DEBOUNCE_WAIT_MS == 2
HOT_INTERVAL_MS == 3
SEND_TIMEOUT_MS == 4
OPENAI_TIMEOUT_MS == 5
SPAM_INTERVAL_MS == 6
HUMAN_OVERRIDE_MS == 7
ESCALATION_MS == 8
FOLLOWUP_T1_MS == 9
FOLLOWUP_T2_MS == 10
CLOSING_MS == 11
MAX_HISTORY == 1
\* src/server.js, the fixed-window limiter (RATE_LIMIT_MAX, RATE_LIMIT_WINDOW_MS)
RATE_MAX == 2
RATE_WINDOW == 3
\* src/server.js, the single follow-up: longer than a delivery may take,
\* shorter than the human override
FOLLOWUP_DELAY_MS == 6

\* Date.now(), in the frame of the current instant
now == 0
\* a timerId / store entry that is null or absent
NoTimer == -1
NoEntry == -1

Phones == {"p1", "p2"}
Jid(p) == <<p, "@s.whatsapp.net">>

ESCALATION_MSG == <<"ESCALATION_MSG">>
CLOSING_MSG == <<"CLOSING_MSG">>
FOLLOWUP_MSG_1 == <<"FOLLOWUP_MSG_1">>
FOLLOWUP_MSG_2 == <<"FOLLOWUP_MSG_2">>
\* null / undefined where a text is expected
NoMsg == <<>>

\* what the generation collaborator may answer
Replies == { <<"r1">>, <<"r2">> }

\* message bodies a customer may send (text.body before trim)
Bodies ==
    { <<"ok">>, <<"when">>, <<"PRICE">>, <<"order">>,
      <<"pin", " ", "code">>, <<"kam", " ", "karo">>, <<" ">> }

\* ------------------------------------------------------------- text helpers
\* String.prototype.toLowerCase, token by token
LowerTok(t) == IF t = "PRICE" THEN "price" ELSE t
toLowerCase(s) == [i \in 1..Len(s) |-> LowerTok(s[i])]

\* String.prototype.trim: drop leading and trailing blanks
RECURSIVE TrimLeft(_)
TrimLeft(s) == IF s # <<>> /\ Head(s) = " " THEN TrimLeft(Tail(s)) ELSE s
RECURSIVE TrimRight(_)
TrimRight(s) ==
    IF s # <<>> /\ s[Len(s)] = " " THEN TrimRight(SubSeq(s, 1, Len(s) - 1)) ELSE s
trim(s) == TrimRight(TrimLeft(s))

\* String.prototype.includes
includes(s, kw) ==
    \E i \in 1..(Len(s) - Len(kw) + 1) : SubSeq(s, i, i + Len(kw) - 1) = kw

\* Array.prototype.join(" ")
RECURSIVE join(_)
join(q) ==
    IF q = <<>> THEN <<>>
    ELSE IF Len(q) = 1 THEN q[1]
    ELSE q[1] \o <<" ">> \o join(Tail(q))

\* ----------------------------------------------------------- keyword lists
\* (the entries of each list that the tokens above can spell)
TRIGGER_KEYWORDS == { <<"price">>, <<"order">>, <<"when">> }
HOT_KEYWORDS == { <<"order">> }
WARM_KEYWORDS == { <<"price">> }
ESCALATION_DISCOUNT_KW == { <<"kam", " ", "karo">>, <<"less", " ", "price">> }
ESCALATION_CONFUSION_KW == { <<"confused">> }
ESCALATION_ORDER_KW == { <<"pin", " ", "code">> }

RANK(i) == CASE i = "HOT" -> 3 [] i = "WARM" -> 2 [] i = "COLD" -> 1 [] OTHER -> 0

\* --------------------------------------------------------------------- state
VARIABLES
    spamTracker,          \* phone -> {lastReplyAt, lastReplyText, debounceTimer, messageQueue}
    conversationHistory,  \* phone -> [{role, content}]
    safeModeTracker,      \* phone -> {userMsgCount, lastSenderWasUs}
    leadStore,            \* phone -> intent
    humanOverrideStore,   \* phone -> silencedUntil
    escalationStore,      \* phone -> silencedUntil
    followUpStore,        \* phone -> {timerId, count}
    memoryFile,           \* memory.json: {safeMode, leads}
    turns,                \* executeMainLogic activations suspended at an await
    nudges,               \* follow-up callbacks suspended at their await
    nextTurn,             \* number of batches flushed so far, plus one
    budget,               \* per phone: webhook events it may still be part of
    burst,                \* per phone: texts accepted since the last flush
    lastArrivalAt,        \* per phone: time of the last accepted text (capped)
    lastGenerated,        \* per phone: the text getOpenAIReply returned last
    followUpLog,          \* per phone: nudges delivered, in all and since the
                          \* last interaction (the cycle, its number and the
                          \* stages delivered in it); whether no timer was
                          \* armed since the operator's last event
    pendingTimers,        \* per purpose and phone: timers set and neither
                          \* fired nor cleared
    rateLimitStore,       \* server.js: phone -> {count, windowStart}
    passedAt,             \* server.js: per phone and age, the messages that
                          \* passed isRateLimited less than RATE_WINDOW ago
    serverJs,             \* server.js, the follow-up system: followUpStore,
                          \* humanOverrideStore, the deliveries under way and
                          \* the follow-ups delivered per phone
    inbox,                \* the messages array of the webhook request being
                          \* served and the position of its for loop
    step                  \* what the last handler step did

vars ==
    << spamTracker, conversationHistory, safeModeTracker, leadStore,
       humanOverrideStore, escalationStore, followUpStore, memoryFile, turns,
       nudges, nextTurn, budget, burst, lastArrivalAt, lastGenerated,
       followUpLog, pendingTimers, rateLimitStore, passedAt, serverJs, inbox,
       step >>

\* lastReplyAt: 0 of a fresh entry is the epoch, longer ago than any interval
Epoch == now - SPAM_INTERVAL_MS
NoSpamEntry ==
    [has |-> FALSE, lastReplyAt |-> Epoch, lastReplyText |-> NoMsg,
     debounceTimer |-> NoTimer, messageQueue |-> <<>>]
NoHistory == [has |-> FALSE, turns |-> <<>>]
NoTracker == [has |-> FALSE, userMsgCount |-> 0, lastSenderWasUs |-> FALSE]
NoFollowUp == [has |-> FALSE, timerId |-> NoTimer, stage |-> 0, count |-> 0]
NoLead == "NONE"
NoFollowUpLog ==
    [sent |-> 0, cycle |-> 0, cycleNo |-> 0, msgs |-> <<>>, operatorLast |-> FALSE]

\* a handler step that called no collaborator
NoCall == [call |-> "none", kind |-> "-", msg |-> NoMsg, turn |-> 0,
           ovr |-> FALSE, esc |-> FALSE, underOvr |-> FALSE]
Obs(act, p, gates, combined, call) ==
    [act |-> act, phone |-> p, gates |-> gates, combined |-> combined, call |-> call]

\* ---------------------------------------------------------- human override
\* (mutant) the operator's event does not silence the bot
setHumanOverride_Skip(ov, p, t) == ov

\* (mutant) the operator's event silences the bot for every participant
setHumanOverride_Everyone(ov, p, t) == [q \in Phones |-> t + HUMAN_OVERRIDE_MS]

\* setHumanOverride
setHumanOverride(ov, p, t) == [ov EXCEPT ![p] = t + HUMAN_OVERRIDE_MS]

\* isHumanOverrideActive: its result ...
isHumanOverrideActive(ov, p, t) == ov[p] # NoEntry /\ t < ov[p]
\* ... and the store it leaves (an expired entry is deleted)
OverrideChecked(ov, p, t) ==
    IF ov[p] # NoEntry /\ ~(t < ov[p]) THEN [ov EXCEPT ![p] = NoEntry] ELSE ov

\* --------------------------------------------------------------- escalation
isEscalationActive(es, p, t) == es[p] # NoEntry /\ t < es[p]
EscalationChecked(es, p, t) ==
    IF es[p] # NoEntry /\ ~(t < es[p]) THEN [es EXCEPT ![p] = NoEntry] ELSE es

orderHit(text) == \E kw \in ESCALATION_ORDER_KW : includes(toLowerCase(text), kw)
escalationHit(text) ==
    \/ \E kw \in ESCALATION_DISCOUNT_KW : includes(toLowerCase(text), kw)
    \/ \E kw \in ESCALATION_CONFUSION_KW : includes(toLowerCase(text), kw)

\* (mutant) the discount / confusion check runs before the order check
checkAndSetEscalation_EscalationFirst(es, p, text, t) ==
    IF escalationHit(text)
        THEN [msg |-> ESCALATION_MSG, store |-> [es EXCEPT ![p] = t + ESCALATION_MS]]
    ELSE IF orderHit(text)
        THEN [msg |-> CLOSING_MSG, store |-> [es EXCEPT ![p] = t + CLOSING_MS]]
    ELSE [msg |-> NoMsg, store |-> es]

\* checkAndSetEscalation: the message it returns and the store it leaves
checkAndSetEscalation(es, p, text, t) ==
    IF orderHit(text)
        THEN [msg |-> CLOSING_MSG, store |-> [es EXCEPT ![p] = t + CLOSING_MS]]
    ELSE IF escalationHit(text)
        THEN [msg |-> ESCALATION_MSG, store |-> [es EXCEPT ![p] = t + ESCALATION_MS]]
    ELSE [msg |-> NoMsg, store |-> es]

\* ---------------------------------------------------------------- safe mode
hasTrigger(text) == \E kw \in TRIGGER_KEYWORDS : includes(toLowerCase(text), kw)

\* (mutant) once we replied last the auto-reply is suppressed, keyword or not
shouldAutoReply_RepliedLastSuppresses(sm, p, text) ==
    IF sm[p].userMsgCount = 0 THEN TRUE
    ELSE IF sm[p].lastSenderWasUs THEN FALSE
    ELSE hasTrigger(text)

\* (mutant) Rule 1, the first-message rule, is missing
shouldAutoReply_NoFirstRule(sm, p, text) ==
    IF sm[p].lastSenderWasUs THEN hasTrigger(text)
    ELSE hasTrigger(text)

shouldAutoReply(sm, p, text) ==
    IF sm[p].userMsgCount = 0 THEN TRUE
    ELSE IF sm[p].lastSenderWasUs THEN hasTrigger(text)
    ELSE hasTrigger(text)

\* --------------------------------------------------------------- lead intent
classify(text) ==
    IF \E kw \in HOT_KEYWORDS : includes(toLowerCase(text), kw) THEN "HOT"
    ELSE IF \E kw \in WARM_KEYWORDS : includes(toLowerCase(text), kw) THEN "WARM"
    ELSE "COLD"

\* (mutant) the stored intent is overwritten by every classification
detectLeadIntent_Overwrite(ls, p, text) == classify(text)

\* detectLeadIntent: the intent it returns and stores
detectLeadIntent(ls, p, text) ==
    IF ls[p] = NoLead \/ RANK(classify(text)) > RANK(ls[p])
        THEN classify(text)
        ELSE ls[p]

\* --------------------------------------------------------------- rate limit
isRateLimited(st, ls, p, newReplyText, t) ==
    IF ~st[p].has THEN FALSE
    ELSE LET intent == IF ls[p] = NoLead THEN "COLD" ELSE ls[p]
             currentInterval == IF intent = "HOT" THEN HOT_INTERVAL_MS ELSE SPAM_INTERVAL_MS
         IN  \/ t - st[p].lastReplyAt < currentInterval
             \/ newReplyText # NoMsg /\ st[p].lastReplyText = newReplyText

updateLastReply(st, p, text, t) ==
    [st EXCEPT ![p] = [@ EXCEPT !.has = TRUE, !.lastReplyAt = t, !.lastReplyText = text]]

\* ----------------------------------------------------------------- follow-up
\* (mutant) the count is reset at every stage, not only at stage 1
scheduleFollowUp_AlwaysResets(fu, ov, p, t, stage) ==
    LET e0 == IF fu[p].has THEN fu[p] ELSE [NoFollowUp EXCEPT !.has = TRUE]
        e2 == [e0 EXCEPT !.timerId = NoTimer, !.stage = 0, !.count = 0]
        delay == IF stage = 1 THEN FOLLOWUP_T1_MS ELSE FOLLOWUP_T2_MS - FOLLOWUP_T1_MS
    IN  IF isHumanOverrideActive(ov, p, t)
            THEN [fu |-> [fu EXCEPT ![p] = e2], ov |-> OverrideChecked(ov, p, t)]
        ELSE [fu |-> [fu EXCEPT ![p] = [e2 EXCEPT !.timerId = t + delay, !.stage = stage]],
              ov |-> OverrideChecked(ov, p, t)]

\* (mutant) the timer is armed without looking at the human override
scheduleFollowUp_NoOverrideCheck(fu, ov, p, t, stage) ==
    LET e0 == IF fu[p].has THEN fu[p] ELSE [NoFollowUp EXCEPT !.has = TRUE]
        e1 == [e0 EXCEPT !.timerId = NoTimer, !.stage = 0]
        e2 == IF stage = 1 THEN [e1 EXCEPT !.count = 0] ELSE e1
        delay == IF stage = 1 THEN FOLLOWUP_T1_MS ELSE FOLLOWUP_T2_MS - FOLLOWUP_T1_MS
    IN  IF e2.count >= 2
            THEN [fu |-> [fu EXCEPT ![p] = e2], ov |-> ov]
        ELSE [fu |-> [fu EXCEPT ![p] = [e2 EXCEPT !.timerId = t + delay, !.stage = stage]],
              ov |-> ov]

\* scheduleFollowUp: the follow-up entry and the override store it leaves
scheduleFollowUp(fu, ov, p, t, stage) ==
    LET e0 == IF fu[p].has THEN fu[p] ELSE [NoFollowUp EXCEPT !.has = TRUE]
        e1 == [e0 EXCEPT !.timerId = NoTimer, !.stage = 0]
        e2 == IF stage = 1 THEN [e1 EXCEPT !.count = 0] ELSE e1
        delay == IF stage = 1 THEN FOLLOWUP_T1_MS ELSE FOLLOWUP_T2_MS - FOLLOWUP_T1_MS
    IN  IF e2.count >= 2
            THEN [fu |-> [fu EXCEPT ![p] = e2], ov |-> ov]
        ELSE IF isHumanOverrideActive(ov, p, t)
            THEN [fu |-> [fu EXCEPT ![p] = e2], ov |-> OverrideChecked(ov, p, t)]
        ELSE [fu |-> [fu EXCEPT ![p] = [e2 EXCEPT !.timerId = t + delay, !.stage = stage]],
              ov |-> OverrideChecked(ov, p, t)]

\* ------------------------------------------------------------------- timers
\* (mutant) the handle of the previous timer is dropped without clearing it
clearTimeout_Forgets(n, handle) == n

\* if (handle) clearTimeout(handle): the pending timers of that purpose left
clearTimeout(n, handle) == IF handle # NoTimer THEN n - 1 ELSE n
\* setTimeout: one more pending timer
setTimeout(n) == n + 1
\* the timer's callback starts: the timer is no longer pending
fired(n) == n - 1
\* the follow-up timers pending after scheduleFollowUp took entry old to new
followUpTimers(n, old, new) ==
    LET cleared == clearTimeout(n, old.timerId)
    IN  IF new.timerId # NoTimer THEN setTimeout(cleared) ELSE cleared

\* saveMemory
saveMemory(sm, ls) == [safeMode |-> sm, leads |-> ls]

\* ------------------------------------------------------------------ messages
NoJid == <<"">>
PhoneOf(jid) == jid[1]
Jids == {Jid(p) : p \in Phones}

\* the webhook events handleMessage may be given
Messages ==
    {[from_me |-> TRUE, to |-> j, from |-> NoJid, type |-> "text", body |-> <<>>] :
        j \in Jids \cup {NoJid}}
    \cup
    {[from_me |-> FALSE, to |-> NoJid, from |-> j, type |-> "text", body |-> b] :
        j \in Jids, b \in Bodies}
    \cup
    {[from_me |-> FALSE, to |-> NoJid, from |-> Jid("p1"), type |-> ty, body |-> <<>>] :
        ty \in {"text", "image"}}
    \cup
    {[from_me |-> FALSE, to |-> NoJid, from |-> NoJid, type |-> "text", body |-> <<"ok">>]}

\* rateLimitStore has no entry for the phone
NoWindow == [has |-> FALSE, count |-> 0, windowStart |-> now]
\* server.js: followUpStore has no entry for the phone
NoFollowUpOnce == [has |-> FALSE, timerId |-> NoTimer, followUpSent |-> FALSE]
\* server.js: the handle of a timer that has fired (still truthy)
FiredTimer == -2
\* what the steps of the debounce revision leave alone
others == << rateLimitStore, passedAt, serverJs, inbox >>

\* no webhook request is being served
NoRequest == [all |-> <<>>, next |-> 1]

InitWith(events) ==
    /\ spamTracker = [p \in Phones |-> NoSpamEntry]
    /\ conversationHistory = [p \in Phones |-> NoHistory]
    /\ safeModeTracker = [p \in Phones |-> NoTracker]
    /\ leadStore = [p \in Phones |-> NoLead]
    /\ humanOverrideStore = [p \in Phones |-> NoEntry]
    /\ escalationStore = [p \in Phones |-> NoEntry]
    /\ followUpStore = [p \in Phones |-> NoFollowUp]
    /\ memoryFile = saveMemory(safeModeTracker, leadStore)
    /\ turns = {}
    /\ nudges = {}
    /\ nextTurn = 1
    /\ budget = events
    /\ burst = [p \in Phones |-> <<>>]
    /\ lastArrivalAt = [p \in Phones |-> now - DEBOUNCE_WAIT_MS]
    /\ lastGenerated = [p \in Phones |-> NoMsg]
    /\ followUpLog = [p \in Phones |-> NoFollowUpLog]
    /\ pendingTimers = [debounce |-> [p \in Phones |-> 0],
                        followUp |-> [p \in Phones |-> 0]]
    /\ rateLimitStore = [p \in Phones |-> NoWindow]
    /\ passedAt = [p \in Phones |-> [a \in 0..(RATE_WINDOW - 1) |-> 0]]
    /\ serverJs = [followUpStore |-> [p \in Phones |-> NoFollowUpOnce],
                   humanOverrideStore |-> [p \in Phones |-> NoEntry],
                   sending |-> {},
                   delivered |-> [p \in Phones |-> 0]]
    /\ inbox = NoRequest
    /\ step = Obs("init", "", <<>>, <<>>, NoCall)

\* one participant writes, MaxEvents events
Init == InitWith([p \in Phones |-> IF p = "p1" THEN MaxEvents ELSE 0])
\* every participant writes, MaxEventsEach events each
InitTwo == InitWith([p \in Phones |-> MaxEventsEach])

\* ------------------------------------------------------------- handleMessage
\* Guard 1: an operator-authored (from_me) event
HandleFromMe(m) ==
    /\ m.from_me = TRUE
    /\ LET customerPhone == PhoneOf(m.to) IN
       IF customerPhone = ""
       THEN /\ step' = Obs("dropped", "", <<>>, <<>>, NoCall)
            /\ UNCHANGED << spamTracker, conversationHistory, safeModeTracker,
                            leadStore, humanOverrideStore, escalationStore,
                            followUpStore, memoryFile, turns, nudges, nextTurn,
                            budget, burst, lastArrivalAt, lastGenerated,
                            followUpLog, pendingTimers >>
       ELSE LET p == customerPhone
                sm1 == [safeModeTracker EXCEPT
                            ![p] = [@ EXCEPT !.has = TRUE, !.lastSenderWasUs = TRUE]]
                ov1 == setHumanOverride(humanOverrideStore, p, now)
                sf == scheduleFollowUp(followUpStore, ov1, p, now, 1)
            IN  /\ budget[p] > 0
                /\ budget' = [budget EXCEPT ![p] = @ - 1]
                /\ safeModeTracker' = sm1
                /\ memoryFile' = saveMemory(sm1, leadStore)
                /\ humanOverrideStore' = sf.ov
                /\ followUpStore' = sf.fu
                /\ followUpLog' = [followUpLog EXCEPT ![p].cycle = 0,
                                                      ![p].msgs = <<>>, ![p].cycleNo = @ + 1,
                                                      ![p].operatorLast = TRUE]
                /\ pendingTimers' =
                      [pendingTimers EXCEPT
                          !.followUp[p] = followUpTimers(@, followUpStore[p], sf.fu[p])]
                /\ step' = Obs("from_me", p, <<>>, <<>>, NoCall)
                /\ UNCHANGED << spamTracker, conversationHistory, leadStore,
                                escalationStore, turns, nudges, nextTurn, burst,
                                lastArrivalAt, lastGenerated >>

\* (mutant) Guard 3 does not look at the body
Skipped_NoBodyCheck(m) ==
    \/ m.type # "text"
    \/ m.from = NoJid

\* Guards 2 and 3: what handleMessage skips
Skipped(m) ==
    \/ m.type # "text"
    \/ m.from = NoJid
    \/ trim(m.body) = <<>>

HandleIgnored(m) ==
    /\ m.from_me = FALSE
    /\ Skipped(m)
    /\ step' = Obs("dropped", "", <<>>, <<>>, NoCall)
    /\ UNCHANGED << spamTracker, conversationHistory, safeModeTracker,
                    leadStore, humanOverrideStore, escalationStore, followUpStore,
                    memoryFile, turns, nudges, nextTurn, budget, burst,
                    lastArrivalAt, lastGenerated, followUpLog, pendingTimers >>

\* (mutant) a pending debounce timer is left running instead of restarted
DebounceArm_KeepPending(entry, t) ==
    IF entry.debounceTimer # NoTimer THEN entry.debounceTimer
    ELSE t + DEBOUNCE_WAIT_MS

\* the debounce deadline a new message sets (any pending timer is cleared)
DebounceArm(entry, t) == t + DEBOUNCE_WAIT_MS

\* (mutant) the accepted text replaces the queued ones
HandleText_Overwrites(m) ==
    /\ m.from_me = FALSE
    /\ ~Skipped(m)
    /\ LET p == PhoneOf(m.from)
           messageText == trim(m.body)
           entry == IF spamTracker[p].has THEN spamTracker[p]
                    ELSE [NoSpamEntry EXCEPT !.has = TRUE]
       IN  /\ budget[p] > 0
           /\ budget' = [budget EXCEPT ![p] = @ - 1]
           /\ spamTracker' =
                [spamTracker EXCEPT ![p] =
                    [entry EXCEPT !.messageQueue = <<messageText>>,
                                  !.debounceTimer = DebounceArm(entry, now)]]
           /\ burst' = [burst EXCEPT ![p] =
                    Append(@, [text |-> messageText,
                               ovr |-> isHumanOverrideActive(humanOverrideStore, p, now)])]
           /\ lastArrivalAt' = [lastArrivalAt EXCEPT ![p] = now]
           /\ pendingTimers' =
                [pendingTimers EXCEPT
                    !.debounce[p] = setTimeout(clearTimeout(@, entry.debounceTimer))]
           /\ step' = Obs("text", p, <<>>, <<>>, NoCall)
           /\ UNCHANGED << conversationHistory, safeModeTracker, leadStore,
                           humanOverrideStore, escalationStore, followUpStore,
                           memoryFile, turns, nudges, nextTurn, lastGenerated,
                           followUpLog >>

\* an accepted customer text: queue it and restart the debounce timer
HandleText(m) ==
    /\ m.from_me = FALSE
    /\ ~Skipped(m)
    /\ LET p == PhoneOf(m.from)
           messageText == trim(m.body)
           entry == IF spamTracker[p].has THEN spamTracker[p]
                    ELSE [NoSpamEntry EXCEPT !.has = TRUE]
       IN  /\ budget[p] > 0
           /\ budget' = [budget EXCEPT ![p] = @ - 1]
           /\ spamTracker' =
                [spamTracker EXCEPT ![p] =
                    [entry EXCEPT !.messageQueue = Append(@, messageText),
                                  !.debounceTimer = DebounceArm(entry, now)]]
           /\ burst' = [burst EXCEPT ![p] =
                    Append(@, [text |-> messageText,
                               ovr |-> isHumanOverrideActive(humanOverrideStore, p, now)])]
           /\ lastArrivalAt' = [lastArrivalAt EXCEPT ![p] = now]
           /\ pendingTimers' =
                [pendingTimers EXCEPT
                    !.debounce[p] = setTimeout(clearTimeout(@, entry.debounceTimer))]
           /\ step' = Obs("text", p, <<>>, <<>>, NoCall)
           /\ UNCHANGED << conversationHistory, safeModeTracker, leadStore,
                           humanOverrideStore, escalationStore, followUpStore,
                           memoryFile, turns, nudges, nextTurn, lastGenerated,
                           followUpLog >>

\* ---------------------------------------------------------- executeMainLogic
\* (mutant) the interval rule of Guard 6 is not consulted
GateChain_NoRateLimit(ov, es, sm, st, ls, p, text, t) ==
    IF isHumanOverrideActive(ov, p, t)
        THEN [gates |-> <<"override">>, pass |-> FALSE, ov |-> ov, es |-> es]
    ELSE IF isEscalationActive(es, p, t)
        THEN [gates |-> <<"override", "escalation">>, pass |-> FALSE,
              ov |-> OverrideChecked(ov, p, t), es |-> es]
    ELSE IF ~shouldAutoReply(sm, p, text)
        THEN [gates |-> <<"override", "escalation", "safemode">>, pass |-> FALSE,
              ov |-> OverrideChecked(ov, p, t), es |-> EscalationChecked(es, p, t)]
    ELSE [gates |-> <<"override", "escalation", "safemode", "ratelimit">>,
          pass |-> TRUE,
          ov |-> OverrideChecked(ov, p, t), es |-> EscalationChecked(es, p, t)]

\* (mutant) Guard 4, the human override check, is missing
GateChain_NoOverride(ov, es, sm, st, ls, p, text, t) ==
    IF isEscalationActive(es, p, t)
        THEN [gates |-> <<"override", "escalation">>, pass |-> FALSE,
              ov |-> ov, es |-> es]
    ELSE IF ~shouldAutoReply(sm, p, text)
        THEN [gates |-> <<"override", "escalation", "safemode">>, pass |-> FALSE,
              ov |-> ov, es |-> EscalationChecked(es, p, t)]
    ELSE [gates |-> <<"override", "escalation", "safemode", "ratelimit">>,
          pass |-> ~isRateLimited(st, ls, p, NoMsg, t),
          ov |-> ov, es |-> EscalationChecked(es, p, t)]

\* (mutant) Guard 4.5, the escalation check, is missing
GateChain_NoEscalation(ov, es, sm, st, ls, p, text, t) ==
    IF isHumanOverrideActive(ov, p, t)
        THEN [gates |-> <<"override">>, pass |-> FALSE, ov |-> ov, es |-> es]
    ELSE IF ~shouldAutoReply(sm, p, text)
        THEN [gates |-> <<"override", "escalation", "safemode">>, pass |-> FALSE,
              ov |-> OverrideChecked(ov, p, t), es |-> es]
    ELSE [gates |-> <<"override", "escalation", "safemode", "ratelimit">>,
          pass |-> ~isRateLimited(st, ls, p, NoMsg, t),
          ov |-> OverrideChecked(ov, p, t), es |-> es]

\* Guards 4, 4.5, 5 and 6 of executeMainLogic, in the order the code runs
\* them: the gates evaluated, whether all passed, and the stores the lazy
\* clean-ups of the evaluated gates leave.
GateChain(ov, es, sm, st, ls, p, text, t) ==
    IF isHumanOverrideActive(ov, p, t)
        THEN [gates |-> <<"override">>, pass |-> FALSE, ov |-> ov, es |-> es]
    ELSE IF isEscalationActive(es, p, t)
        THEN [gates |-> <<"override", "escalation">>, pass |-> FALSE,
              ov |-> OverrideChecked(ov, p, t), es |-> es]
    ELSE IF ~shouldAutoReply(sm, p, text)
        THEN [gates |-> <<"override", "escalation", "safemode">>, pass |-> FALSE,
              ov |-> OverrideChecked(ov, p, t), es |-> EscalationChecked(es, p, t)]
    ELSE [gates |-> <<"override", "escalation", "safemode", "ratelimit">>,
          pass |-> ~isRateLimited(st, ls, p, NoMsg, t),
          ov |-> OverrideChecked(ov, p, t), es |-> EscalationChecked(es, p, t)]

\* (mutant) the handoff branch does not return before the generation call
NextAwait_AlwaysGen(handoffMsg) == "gen"

\* where the turn waits after the escalation check: a handoff message is
\* sent and the function returns, otherwise the generation call is made
NextAwait(handoffMsg) == IF handoffMsg # NoMsg THEN "handoffSend" ELSE "gen"

\* history.push(...)
push(h, role, content) ==
    [has |-> TRUE, turns |-> Append(h.turns, [role |-> role, content |-> content])]
\* (mutant) the user turn appended before the generation call is kept
pop_Keep(h) == h

\* history.pop()
pop(h) ==
    IF h.turns = <<>> THEN h
    ELSE [h EXCEPT !.turns = SubSeq(h.turns, 1, Len(h.turns) - 1)]
\* (mutant) the trim keeps the oldest entries and removes the newest
trimHistory_DropNewest(h) ==
    IF Len(h.turns) > MAX_HISTORY * 2
        THEN [h EXCEPT !.turns = SubSeq(h.turns, 1, MAX_HISTORY * 2)]
        ELSE h

\* history.splice(0, history.length - MAX_HISTORY * 2) when it is longer
trimHistory(h) ==
    IF Len(h.turns) > MAX_HISTORY * 2
        THEN [h EXCEPT !.turns =
                SubSeq(h.turns, Len(h.turns) - MAX_HISTORY * 2 + 1, Len(h.turns))]
        ELSE h

SendCall(kind, msg, id, ov, es, p, t, under) ==
    [call |-> "send", kind |-> kind, msg |-> msg, turn |-> id,
     ovr |-> isHumanOverrideActive(ov, p, t),
     esc |-> isEscalationActive(es, p, t), underOvr |-> under]
GenCall(id, ov, es, p, t, under) ==
    [call |-> "gen", kind |-> "-", msg |-> NoMsg, turn |-> id,
     ovr |-> isHumanOverrideActive(ov, p, t),
     esc |-> isEscalationActive(es, p, t), underOvr |-> under]

\* no handler has yet touched any store of p
EmptyPrior(p) ==
    /\ ~conversationHistory[p].has
    /\ ~safeModeTracker[p].has
    /\ leadStore[p] = NoLead
    /\ humanOverrideStore[p] = NoEntry
    /\ escalationStore[p] = NoEntry
    /\ ~followUpStore[p].has
    /\ spamTracker[p].lastReplyAt = Epoch /\ spamTracker[p].lastReplyText = NoMsg

\* the debounce timer of p fires: executeMainLogic up to its first await
DebounceFire(p) ==
    /\ spamTracker[p].has
    /\ spamTracker[p].debounceTimer = now
    /\ LET entry == spamTracker[p]
           emptyQueue == entry.messageQueue = <<>>
           combinedText == join(entry.messageQueue)
           st1 == [spamTracker EXCEPT ![p].messageQueue = <<>>,
                                      ![p].debounceTimer = NoTimer]
           sf == scheduleFollowUp(followUpStore, humanOverrideStore, p, now, 1)
           g == GateChain(sf.ov, escalationStore, safeModeTracker, st1, leadStore,
                          p, combinedText, now)
           under == \E i \in 1..Len(burst[p]) : burst[p][i].ovr
           h1 == push(conversationHistory[p], "user", combinedText)
           sm1 == [safeModeTracker EXCEPT
                      ![p] = [has |-> TRUE, userMsgCount |-> @.userMsgCount + 1,
                              lastSenderWasUs |-> FALSE]]
           leadIntent == detectLeadIntent(leadStore, p, combinedText)
           ls1 == [leadStore EXCEPT ![p] = leadIntent]
           ce == checkAndSetEscalation(g.es, p, combinedText, now)
           pc1 == NextAwait(ce.msg)
           turn == [id |-> nextTurn, phone |-> p, pc |-> pc1, text |-> combinedText,
                    intent |-> leadIntent, first |-> EmptyPrior(p),
                    reply |-> IF pc1 = "handoffSend" THEN ce.msg ELSE NoMsg,
                    by |-> now + (IF pc1 = "handoffSend" THEN SEND_TIMEOUT_MS
                                  ELSE OPENAI_TIMEOUT_MS),
                    underOvr |-> under,
                    before |-> conversationHistory[p].turns,
                    alone |-> \A u \in turns : u.phone # p]
       IN  IF emptyQueue
           THEN /\ spamTracker' = [spamTracker EXCEPT ![p].debounceTimer = NoTimer]
                /\ step' = Obs("flushEmpty", p, <<>>, <<>>, NoCall)
                /\ pendingTimers' = [pendingTimers EXCEPT !.debounce[p] = fired(@)]
                /\ UNCHANGED << conversationHistory, safeModeTracker, leadStore,
                                humanOverrideStore, escalationStore, followUpStore,
                                memoryFile, turns, nudges, nextTurn, budget, burst,
                                lastArrivalAt, lastGenerated, followUpLog >>
           ELSE /\ spamTracker' = st1
                /\ followUpStore' = sf.fu
                /\ followUpLog' =
                      [followUpLog EXCEPT
                          ![p].cycle = 0,
                          ![p].msgs = <<>>, ![p].cycleNo = @ + 1,
                          ![p].operatorLast = @ /\ sf.fu[p].timerId = NoTimer]
                /\ humanOverrideStore' = g.ov
                /\ burst' = [burst EXCEPT ![p] = <<>>]
                /\ nextTurn' = nextTurn + 1
                /\ pendingTimers' =
                      [pendingTimers EXCEPT
                          !.debounce[p] = fired(@),
                          !.followUp[p] = followUpTimers(@, followUpStore[p], sf.fu[p])]
                /\ IF ~g.pass
                   THEN /\ escalationStore' = g.es
                        /\ step' = Obs("flush", p, g.gates, combinedText, NoCall)
                        /\ UNCHANGED << conversationHistory, safeModeTracker,
                                        leadStore, memoryFile, turns >>
                   ELSE /\ conversationHistory' =
                                [conversationHistory EXCEPT ![p] = h1]
                        /\ safeModeTracker' = sm1
                        /\ leadStore' = ls1
                        /\ memoryFile' = saveMemory(sm1, ls1)
                        /\ escalationStore' = ce.store
                        /\ turns' = turns \cup {turn}
                        /\ step' = Obs("flush", p, g.gates, combinedText,
                                IF pc1 = "handoffSend"
                                THEN SendCall("handoff", ce.msg, nextTurn, g.ov,
                                              escalationStore, p, now, under)
                                ELSE GenCall(nextTurn, g.ov, escalationStore, p,
                                             now, under))
                /\ UNCHANGED << nudges, budget, lastArrivalAt, lastGenerated >>

\* the handoff delivery of turn t resolves
HandoffSendDone(t, ok) ==
    /\ t \in turns
    /\ t.pc = "handoffSend"
    /\ turns' = turns \ {t}
    /\ spamTracker' = IF ok THEN updateLastReply(spamTracker, t.phone, t.reply, now)
                      ELSE spamTracker
    /\ step' = Obs(IF ok THEN "handoffSent" ELSE "handoffFailed", t.phone, <<>>,
                   <<>>, NoCall)
    /\ UNCHANGED << conversationHistory, safeModeTracker, leadStore,
                    humanOverrideStore, escalationStore, followUpStore, memoryFile,
                    nudges, nextTurn, budget, burst, lastArrivalAt, lastGenerated,
                    followUpLog, pendingTimers >>

\* getOpenAIReply of turn t returns aiReply
GenReturn(t, aiReply) ==
    /\ t \in turns
    /\ t.pc = "gen"
    /\ LET p == t.phone
           h1 == trimHistory(push(conversationHistory[p], "assistant", aiReply))
           sm1 == [safeModeTracker EXCEPT
                      ![p] = [@ EXCEPT !.has = TRUE, !.lastSenderWasUs = TRUE]]
       IN  IF isRateLimited(spamTracker, leadStore, p, aiReply, now)
           THEN /\ turns' = turns \ {t}
                /\ step' = Obs("genBlocked", p, <<>>, <<>>, NoCall)
                /\ UNCHANGED << conversationHistory, safeModeTracker >>
           ELSE /\ conversationHistory' = [conversationHistory EXCEPT ![p] = h1]
                /\ safeModeTracker' = sm1
                /\ turns' = (turns \ {t}) \cup
                        {[t EXCEPT !.pc = "replySend", !.reply = aiReply,
                                   !.by = now + SEND_TIMEOUT_MS]}
                /\ step' = Obs("genReturn", p, <<>>, <<>>,
                               SendCall("reply", aiReply, t.id, humanOverrideStore,
                                        escalationStore, p, now, t.underOvr))
    /\ lastGenerated' = [lastGenerated EXCEPT ![t.phone] = aiReply]
    /\ UNCHANGED << spamTracker, leadStore, humanOverrideStore,
                    escalationStore, followUpStore, memoryFile, nudges, nextTurn,
                    budget, burst, lastArrivalAt, followUpLog, pendingTimers >>

\* (mutant) the failure handler also takes back the counted user message
GenFail_Rollback(t) ==
    /\ t \in turns
    /\ t.pc = "gen"
    /\ turns' = turns \ {t}
    /\ conversationHistory' =
            [conversationHistory EXCEPT ![t.phone] = pop(@)]
    /\ safeModeTracker' =
            [safeModeTracker EXCEPT ![t.phone].userMsgCount = @ - 1]
    /\ step' = Obs("genFailed", t.phone, <<>>, <<>>, NoCall)
    /\ UNCHANGED << spamTracker, leadStore,
                    humanOverrideStore, escalationStore, followUpStore, memoryFile,
                    nudges, nextTurn, budget, burst, lastArrivalAt, lastGenerated,
                    followUpLog, pendingTimers >>

\* getOpenAIReply of turn t throws (timeout, error status, malformed answer)
GenFail(t) ==
    /\ t \in turns
    /\ t.pc = "gen"
    /\ turns' = turns \ {t}
    /\ conversationHistory' =
            [conversationHistory EXCEPT ![t.phone] = pop(@)]
    /\ step' = Obs("genFailed", t.phone, <<>>, <<>>, NoCall)
    /\ UNCHANGED << spamTracker, safeModeTracker, leadStore,
                    humanOverrideStore, escalationStore, followUpStore, memoryFile,
                    nudges, nextTurn, budget, burst, lastArrivalAt, lastGenerated,
                    followUpLog, pendingTimers >>

\* (mutant) a failed delivery takes the recorded reply back
ReplySendDone_Revert(t, ok) ==
    /\ t \in turns
    /\ t.pc = "replySend"
    /\ turns' = turns \ {t}
    /\ spamTracker' = IF ok THEN updateLastReply(spamTracker, t.phone, t.reply, now)
                      ELSE spamTracker
    /\ conversationHistory' =
            IF ok THEN conversationHistory
            ELSE [conversationHistory EXCEPT ![t.phone] = pop(@)]
    /\ safeModeTracker' =
            IF ok THEN safeModeTracker
            ELSE [safeModeTracker EXCEPT ![t.phone].lastSenderWasUs = FALSE]
    /\ step' = Obs(IF ok THEN "replySent" ELSE "replyFailed", t.phone, <<>>, <<>>,
                   NoCall)
    /\ UNCHANGED << leadStore,
                    humanOverrideStore, escalationStore, followUpStore, memoryFile,
                    nudges, nextTurn, budget, burst, lastArrivalAt, lastGenerated,
                    followUpLog, pendingTimers >>

\* (mutant) a reply whose delivery failed stays in flight
ReplySendDone_Retries(t, ok) ==
    /\ t \in turns
    /\ t.pc = "replySend"
    /\ turns' = IF ok THEN turns \ {t} ELSE turns
    /\ spamTracker' = IF ok THEN updateLastReply(spamTracker, t.phone, t.reply, now)
                      ELSE spamTracker
    /\ step' = Obs(IF ok THEN "replySent" ELSE "replyFailed", t.phone, <<>>, <<>>,
                   NoCall)
    /\ UNCHANGED << conversationHistory, safeModeTracker, leadStore,
                    humanOverrideStore, escalationStore, followUpStore, memoryFile,
                    nudges, nextTurn, budget, burst, lastArrivalAt, lastGenerated,
                    followUpLog, pendingTimers >>

\* the reply delivery of turn t resolves
ReplySendDone(t, ok) ==
    /\ t \in turns
    /\ t.pc = "replySend"
    /\ turns' = turns \ {t}
    /\ spamTracker' = IF ok THEN updateLastReply(spamTracker, t.phone, t.reply, now)
                      ELSE spamTracker
    /\ step' = Obs(IF ok THEN "replySent" ELSE "replyFailed", t.phone, <<>>, <<>>,
                   NoCall)
    /\ UNCHANGED << conversationHistory, safeModeTracker, leadStore,
                    humanOverrideStore, escalationStore, followUpStore, memoryFile,
                    nudges, nextTurn, budget, burst, lastArrivalAt, lastGenerated,
                    followUpLog, pendingTimers >>

\* ------------------------------------------------------- follow-up callback
FollowUpMsg(stage) == IF stage = 1 THEN FOLLOWUP_MSG_1 ELSE FOLLOWUP_MSG_2

\* the follow-up timer of p fires: the callback up to its await
FollowUpFire(p) ==
    /\ followUpStore[p].has
    /\ followUpStore[p].timerId = now
    /\ LET stage == followUpStore[p].stage IN
       /\ followUpStore' = [followUpStore EXCEPT ![p].timerId = NoTimer,
                                                 ![p].stage = 0]
       /\ pendingTimers' = [pendingTimers EXCEPT !.followUp[p] = fired(@)]
       /\ IF isHumanOverrideActive(humanOverrideStore, p, now)
          THEN /\ step' = Obs("followUpSkipped", p, <<>>, <<>>, NoCall)
               /\ UNCHANGED << nudges, humanOverrideStore, followUpLog >>
          ELSE /\ humanOverrideStore' = OverrideChecked(humanOverrideStore, p, now)
               /\ nudges' = nudges \cup
                        {[phone |-> p, stage |-> stage, by |-> now + SEND_TIMEOUT_MS,
                          cycleNo |-> followUpLog[p].cycleNo]}
               /\ UNCHANGED followUpLog
               /\ step' = Obs("followUpFire", p, <<>>, <<>>,
                              SendCall("nudge", FollowUpMsg(stage), 0,
                                       humanOverrideStore, escalationStore, p, now,
                                       FALSE))
    /\ UNCHANGED << spamTracker, conversationHistory, safeModeTracker,
                    leadStore, escalationStore, memoryFile, turns, nextTurn, budget,
                    burst, lastArrivalAt, lastGenerated >>

\* the nudge delivery resolves: count it and, after the first, arm stage 2
NudgeSendDone(n, ok) ==
    /\ n \in nudges
    /\ nudges' = nudges \ {n}
    /\ LET p == n.phone
           counted == [followUpStore EXCEPT ![p].count = @ + 1]
           sf == scheduleFollowUp(counted, humanOverrideStore, p, now, 2)
       IN  IF ~ok
           THEN /\ step' = Obs("nudgeFailed", p, <<>>, <<>>, NoCall)
                /\ UNCHANGED << followUpStore, humanOverrideStore, followUpLog,
                                pendingTimers >>
           ELSE /\ step' = Obs("nudgeSent", p, <<>>, <<>>, NoCall)
                /\ followUpLog' =
                      [followUpLog EXCEPT
                          ![p].sent = IF @ < MaxNudgeLog THEN @ + 1 ELSE @,
                          ![p].cycle = IF @ < MaxNudgeLog THEN @ + 1 ELSE @,
                          ![p].msgs = IF Len(@) < MaxNudgeLog
                                      THEN Append(@, [stage |-> n.stage,
                                                      carried |-> n.cycleNo # followUpLog[p].cycleNo])
                                      ELSE @]
                /\ IF counted[p].count = 1
                   THEN /\ followUpStore' = sf.fu
                        /\ humanOverrideStore' = sf.ov
                        /\ pendingTimers' =
                              [pendingTimers EXCEPT
                                  !.followUp[p] =
                                      followUpTimers(@, counted[p], sf.fu[p])]
                   ELSE /\ followUpStore' = counted
                        /\ UNCHANGED << humanOverrideStore, pendingTimers >>
    /\ UNCHANGED << spamTracker, conversationHistory, safeModeTracker,
                    leadStore, escalationStore, memoryFile, turns, nextTurn, budget,
                    burst, lastArrivalAt, lastGenerated >>

\* ---------------------------------------------------------------------- time
\* a stored deadline one tick later (a passed one stays at now)
Later(d) == IF d = NoEntry THEN NoEntry ELSE IF d > now THEN d - 1 ELSE now
\* a stored past instant one tick later (not further back than the epoch)
Earlier(a) == IF a = NoEntry THEN NoEntry ELSE IF a > Epoch THEN a - 1 ELSE Epoch
\* the last arrival one tick later (not further back than the debounce wait)
LongAgo == now - DEBOUNCE_WAIT_MS
EarlierArrival(a) == IF a > LongAgo THEN a - 1 ELSE LongAgo

\* the clock advances by one unit.  A timer that is due runs, and an awaited
\* call resolves or times out, before the clock moves on.
Tick ==
    /\ \A p \in Phones :
          /\ spamTracker[p].debounceTimer # now
          /\ followUpStore[p].timerId # now
    /\ \A t \in turns : t.by > now
    /\ \A n \in nudges : n.by > now
    /\ spamTracker' =
          [p \in Phones |->
              [spamTracker[p] EXCEPT !.lastReplyAt = Earlier(@),
                                     !.debounceTimer = Later(@)]]
    /\ followUpStore' =
          [p \in Phones |-> [followUpStore[p] EXCEPT !.timerId = Later(@)]]
    /\ humanOverrideStore' = [p \in Phones |-> Later(humanOverrideStore[p])]
    /\ escalationStore' = [p \in Phones |-> Later(escalationStore[p])]
    /\ turns' = {[t EXCEPT !.by = @ - 1] : t \in turns}
    /\ nudges' = {[n EXCEPT !.by = @ - 1] : n \in nudges}
    /\ lastArrivalAt' = [p \in Phones |-> EarlierArrival(lastArrivalAt[p])]
    /\ step' = Obs("tick", "", <<>>, <<>>, NoCall)
    /\ UNCHANGED << conversationHistory, safeModeTracker, leadStore, memoryFile,
                    nextTurn, budget, burst, lastGenerated, followUpLog,
                    pendingTimers >>

Next ==
    \/ (\E m \in Messages : HandleFromMe(m)) /\ UNCHANGED others
    \/ (\E m \in Messages : HandleIgnored(m)) /\ UNCHANGED others
    \/ (\E m \in Messages : HandleText(m)) /\ UNCHANGED others
    \/ (\E p \in Phones : DebounceFire(p)) /\ UNCHANGED others
    \/ (\E t \in turns, ok \in BOOLEAN : HandoffSendDone(t, ok)) /\ UNCHANGED others
    \/ (\E t \in turns, r \in Replies : GenReturn(t, r)) /\ UNCHANGED others
    \/ (\E t \in turns : GenFail(t)) /\ UNCHANGED others
    \/ (\E t \in turns, ok \in BOOLEAN : ReplySendDone(t, ok)) /\ UNCHANGED others
    \/ (\E p \in Phones : FollowUpFire(p)) /\ UNCHANGED others
    \/ (\E n \in nudges, ok \in BOOLEAN : NudgeSendDone(n, ok)) /\ UNCHANGED others
    \/ Tick /\ UNCHANGED others

Spec == Init /\ [][Next]_vars

\* the events given to handleMessage when every participant is active: an
\* operator event, a plain text, a text with a discount keyword, an image
MessagesTwo ==
    {m \in Messages :
        \/ m.from_me /\ m.to # NoJid
        \/ ~m.from_me /\ m.from # NoJid
               /\ (m.type = "image" \/ m.body \in {<<"ok">>, <<"kam", " ", "karo">>})}

NextTwo ==
    \/ (\E m \in MessagesTwo : HandleFromMe(m)) /\ UNCHANGED others
    \/ (\E m \in MessagesTwo : HandleIgnored(m)) /\ UNCHANGED others
    \/ (\E m \in MessagesTwo : HandleText(m)) /\ UNCHANGED others
    \/ (\E p \in Phones : DebounceFire(p)) /\ UNCHANGED others
    \/ (\E t \in turns, ok \in BOOLEAN : HandoffSendDone(t, ok)) /\ UNCHANGED others
    \/ (\E t \in turns : GenReturn(t, <<"r1">>)) /\ UNCHANGED others
    \/ (\E t \in turns : GenFail(t)) /\ UNCHANGED others
    \/ (\E t \in turns, ok \in BOOLEAN : ReplySendDone(t, ok)) /\ UNCHANGED others
    \/ (\E p \in Phones : FollowUpFire(p)) /\ UNCHANGED others
    \/ (\E n \in nudges, ok \in BOOLEAN : NudgeSendDone(n, ok)) /\ UNCHANGED others
    \/ Tick /\ UNCHANGED others

\* the same program with every participant active
SpecTwo == InitTwo /\ [][NextTwo]_vars

\* the events given to handleMessage by a participant who asks for a handoff
\* more than once: an operator event, a plain text, an order text, a discount
\* text that also holds a trigger keyword, an image
MessagesSilence ==
    {m \in Messages :
        \/ m.from_me /\ m.to # NoJid
        \/ ~m.from_me /\ m.from # NoJid
               /\ (m.type = "image" \/ m.body \in {<<"ok">>, <<"pin", " ", "code">>})}
    \cup
    {[from_me |-> FALSE, to |-> NoJid, from |-> j, type |-> "text",
      body |-> <<"less", " ", "price">>] : j \in Jids}

NextSilence ==
    \/ (\E m \in MessagesSilence : HandleFromMe(m)) /\ UNCHANGED others
    \/ (\E m \in MessagesSilence : HandleIgnored(m)) /\ UNCHANGED others
    \/ (\E m \in MessagesSilence : HandleText(m)) /\ UNCHANGED others
    \/ (\E p \in Phones : DebounceFire(p)) /\ UNCHANGED others
    \/ (\E t \in turns, ok \in BOOLEAN : HandoffSendDone(t, ok)) /\ UNCHANGED others
    \/ (\E t \in turns : GenReturn(t, <<"r1">>)) /\ UNCHANGED others
    \/ (\E t \in turns : GenFail(t)) /\ UNCHANGED others
    \/ (\E t \in turns, ok \in BOOLEAN : ReplySendDone(t, ok)) /\ UNCHANGED others
    \/ (\E p \in Phones : FollowUpFire(p)) /\ UNCHANGED others
    \/ (\E n \in nudges, ok \in BOOLEAN : NudgeSendDone(n, ok)) /\ UNCHANGED others
    \/ Tick /\ UNCHANGED others

\* the same program with texts that ask for a handoff under a silence
SpecSilence == Init /\ [][NextSilence]_vars

\* ------------------------------------- src/server.js: fixed-window limiter
\* isRateLimited(phone) of src/server.js: its result and the store it leaves
isRateLimitedFixed(store, p, t) ==
    LET entry == store[p] IN
    IF ~entry.has \/ t - entry.windowStart > RATE_WINDOW
        THEN [limited |-> FALSE,
              store |-> [store EXCEPT ![p] = [has |-> TRUE, count |-> 1, windowStart |-> t]]]
    ELSE IF entry.count >= RATE_MAX
        THEN [limited |-> TRUE, store |-> store]
    ELSE [limited |-> FALSE, store |-> [store EXCEPT ![p].count = @ + 1]]

\* Guard 6 of src/server.js for a message of p
RateGuard(p) ==
    /\ LET r == isRateLimitedFixed(rateLimitStore, p, now) IN
       /\ rateLimitStore' = r.store
       /\ passedAt' = IF r.limited THEN passedAt
                      ELSE [passedAt EXCEPT ![p][0] = @ + 1]
       /\ step' = Obs(IF r.limited THEN "limited" ELSE "passed", p, <<>>, <<>>, NoCall)
    /\ UNCHANGED << spamTracker, conversationHistory, safeModeTracker, leadStore,
                    humanOverrideStore, escalationStore, followUpStore, memoryFile,
                    turns, nudges, nextTurn, budget, burst, lastArrivalAt,
                    lastGenerated, followUpLog, pendingTimers, serverJs, inbox >>

\* a windowStart one tick later (further back than the window it stays)
WindowAged(w) == IF w >= now - RATE_WINDOW THEN w - 1 ELSE w

\* the clock of src/server.js advances by one unit
RateTick ==
    /\ rateLimitStore' =
          [p \in Phones |-> [rateLimitStore[p] EXCEPT !.windowStart = WindowAged(@)]]
    /\ passedAt' =
          [p \in Phones |->
              [a \in 0..(RATE_WINDOW - 1) |-> IF a = 0 THEN 0 ELSE passedAt[p][a - 1]]]
    /\ step' = Obs("tick", "", <<>>, <<>>, NoCall)
    /\ UNCHANGED << spamTracker, conversationHistory, safeModeTracker, leadStore,
                    humanOverrideStore, escalationStore, followUpStore, memoryFile,
                    turns, nudges, nextTurn, budget, burst, lastArrivalAt,
                    lastGenerated, followUpLog, pendingTimers, serverJs, inbox >>

NextRate ==
    \/ \E p \in Phones : RateGuard(p)
    \/ RateTick

\* the limiter of src/server.js under any arrivals
SpecRate == Init /\ [][NextRate]_vars

\* --------------------------------------- src/server.js: the single follow-up
\* the objects a sending callback holds are no longer the store's entry of p
replaced(sending, p) ==
    {IF f.phone = p THEN [f EXCEPT !.current = FALSE] ELSE f : f \in sending}

\* scheduleFollowUp of src/server.js: unless the follow-up was sent, the
\* pending timer is cleared and a new entry object with a new timer is stored
scheduleFollowUpOnce(sj, p, t) ==
    LET existing == sj.followUpStore[p] IN
    IF existing.followUpSent THEN sj
    ELSE [sj EXCEPT !.followUpStore[p] =
                        [has |-> TRUE, timerId |-> t + FOLLOWUP_DELAY_MS,
                         followUpSent |-> FALSE],
                    !.sending = replaced(@, p)]

\* cancelFollowUp of src/server.js: an entry with a (truthy) timer handle is
\* replaced by a new object without one
cancelFollowUpOnce(sj, p) ==
    LET entry == sj.followUpStore[p] IN
    IF entry.has /\ entry.timerId # NoTimer
        THEN [sj EXCEPT !.followUpStore[p] =
                            [has |-> TRUE, timerId |-> NoTimer,
                             followUpSent |-> entry.followUpSent],
                        !.sending = replaced(@, p)]
        ELSE sj

\* what no step of src/server.js's follow-up system changes
debounceRevision ==
    << spamTracker, conversationHistory, safeModeTracker, leadStore,
       humanOverrideStore, escalationStore, followUpStore, memoryFile, turns,
       nudges, nextTurn, burst, lastArrivalAt, lastGenerated, followUpLog,
       pendingTimers, rateLimitStore, passedAt, inbox >>

\* src/server.js, handleMessage: an accepted customer text reaches line 370
OnceText(p) ==
    /\ budget[p] > 0
    /\ budget' = [budget EXCEPT ![p] = @ - 1]
    /\ serverJs' = scheduleFollowUpOnce(serverJs, p, now)
    /\ step' = Obs("text", p, <<>>, <<>>, NoCall)
    /\ UNCHANGED debounceRevision

\* src/server.js, handleMessage: an operator event
OnceFromMe(p) ==
    /\ budget[p] > 0
    /\ budget' = [budget EXCEPT ![p] = @ - 1]
    /\ serverJs' = cancelFollowUpOnce(
                        [serverJs EXCEPT !.humanOverrideStore[p] = now + HUMAN_OVERRIDE_MS],
                        p)
    /\ step' = Obs("from_me", p, <<>>, <<>>, NoCall)
    /\ UNCHANGED debounceRevision

\* src/server.js: the follow-up timer of p fires, the callback up to its await
OnceFire(p) ==
    /\ serverJs.followUpStore[p].timerId = now
    /\ LET entry == serverJs.followUpStore[p]
           ran == [serverJs EXCEPT !.followUpStore[p].timerId = FiredTimer]
           ov == serverJs.humanOverrideStore
       IN  IF entry.followUpSent
           THEN /\ serverJs' = ran
                /\ step' = Obs("followUpSkipped", p, <<>>, <<>>, NoCall)
           ELSE IF isHumanOverrideActive(ov, p, now)
           THEN /\ serverJs' = ran
                /\ step' = Obs("followUpSkipped", p, <<>>, <<>>, NoCall)
           ELSE /\ serverJs' =
                      [ran EXCEPT
                          !.humanOverrideStore = OverrideChecked(ov, p, now),
                          !.sending = @ \cup {[phone |-> p, current |-> TRUE,
                                               by |-> now + SEND_TIMEOUT_MS]}]
                /\ step' = Obs("followUpFire", p, <<>>, <<>>,
                               SendCall("nudge", FOLLOWUP_MSG_1, 0, ov,
                                        escalationStore, p, now, FALSE))
    /\ UNCHANGED << budget, debounceRevision >>

\* src/server.js: the follow-up delivery returns or fails; after a delivery
\* the object the callback holds is marked as sent
OnceSendDone(f, ok) ==
    /\ f \in serverJs.sending
    /\ LET p == f.phone
           done == [serverJs EXCEPT !.sending = @ \ {f}]
       IN  IF ~ok
           THEN /\ serverJs' = done
                /\ step' = Obs("nudgeFailed", p, <<>>, <<>>, NoCall)
           ELSE /\ serverJs' =
                      [done EXCEPT
                          !.delivered[p] = IF @ < MaxNudgeLog THEN @ + 1 ELSE @,
                          !.followUpStore[p].followUpSent = IF f.current THEN TRUE ELSE @]
                /\ step' = Obs("nudgeSent", p, <<>>, <<>>, NoCall)
    /\ UNCHANGED << budget, debounceRevision >>

\* a pending timer handle one tick later (null and fired handles stay)
HandleLater(h) == IF h > now THEN h - 1 ELSE h

\* the clock of src/server.js advances by one unit
OnceTick ==
    /\ \A p \in Phones : serverJs.followUpStore[p].timerId # now
    /\ \A f \in serverJs.sending : f.by > now
    /\ serverJs' =
          [serverJs EXCEPT
              !.followUpStore =
                  [p \in Phones |-> [@[p] EXCEPT !.timerId = HandleLater(@)]],
              !.humanOverrideStore = [p \in Phones |-> Later(@[p])],
              !.sending = {[f EXCEPT !.by = @ - 1] : f \in @}]
    /\ step' = Obs("tick", "", <<>>, <<>>, NoCall)
    /\ UNCHANGED << budget, debounceRevision >>

NextOnce ==
    \/ \E p \in Phones : OnceText(p)
    \/ \E p \in Phones : OnceFromMe(p)
    \/ \E p \in Phones : OnceFire(p)
    \/ \E f \in serverJs.sending, ok \in BOOLEAN : OnceSendDone(f, ok)
    \/ OnceTick

\* the follow-up system of src/server.js under any events
SpecOnce == Init /\ [][NextOnce]_vars

\* ------------------------------------------------------------ POST /webhook
\* a null element of the messages array: reading message.from_me throws
NullMessage ==
    [from_me |-> FALSE, to |-> NoJid, from |-> NoJid, type |-> "null", body |-> <<>>]

\* the elements a messages array may hold
MessagesHook ==
    {m \in Messages :
        \/ m.from_me /\ m.to = Jid("p1")
        \/ ~m.from_me /\ m.from = Jid("p1")
               /\ (m.type = "image" \/ m.body \in {<<"ok">>, <<"kam", " ", "karo">>})}
    \cup {NullMessage}

\* req.body: messages is absent, is not an array, or is an array
Payloads ==
    {[kind |-> k, messages |-> <<>>] : k \in {"absent", "notArray", "array"}}
    \cup {[kind |-> "array", messages |-> ms] :
                ms \in UNION {[1..n -> MessagesHook] : n \in 1..MaxBatch}}

\* the webhook events of phone p that handling message m uses up
Uses(m, p) ==
    IF m = NullMessage THEN 0
    ELSE IF m.from_me THEN (IF PhoneOf(m.to) = p THEN 1 ELSE 0)
    ELSE IF ~Skipped(m) /\ PhoneOf(m.from) = p THEN 1 ELSE 0
RECURSIVE UsesAll(_, _)
UsesAll(ms, p) == IF ms = <<>> THEN 0 ELSE Uses(Head(ms), p) + UsesAll(Tail(ms), p)

\* the for loop over messages has elements left
Looping == inbox.next <= Len(inbox.all)

\* the route's handler up to the loop: a body without a non-empty messages
\* array is skipped
Webhook(body) ==
    /\ ~Looping
    /\ \A p \in Phones : UsesAll(body.messages, p) <= budget[p]
    /\ IF body.kind # "array" \/ Len(body.messages) = 0
       THEN /\ step' = Obs("skipped", "", <<>>, <<>>, NoCall)
            /\ UNCHANGED others
       ELSE /\ step' = Obs("received", "", <<>>, <<>>, NoCall)
            /\ inbox' = [all |-> body.messages, next |-> 1]
    /\ UNCHANGED << spamTracker, conversationHistory, safeModeTracker, leadStore,
                    humanOverrideStore, escalationStore, followUpStore, memoryFile,
                    turns, nudges, nextTurn, budget, burst, lastArrivalAt,
                    lastGenerated, followUpLog, pendingTimers >>

\* handleMessage throws: the promise it returned is rejected and .catch logs
HandleThrows(m) ==
    /\ m = NullMessage
    /\ step' = Obs("threw", "", <<>>, <<>>, NoCall)
    /\ UNCHANGED << spamTracker, conversationHistory, safeModeTracker, leadStore,
                    humanOverrideStore, escalationStore, followUpStore, memoryFile,
                    turns, nudges, nextTurn, budget, burst, lastArrivalAt,
                    lastGenerated, followUpLog, pendingTimers >>

\* (mutant) an element whose handling throws ends the loop
LoopStep_AbortsOnThrow(m) ==
    IF m = NullMessage THEN [inbox EXCEPT !.next = Len(inbox.all) + 1]
    ELSE [inbox EXCEPT !.next = @ + 1]

\* the loop goes on to the next element whatever handleMessage(m) did
LoopStep(m) == [inbox EXCEPT !.next = @ + 1]

\* one round of the for loop: handleMessage runs for the next element (it has
\* no await before its end, so it runs to its end before the next round)
HandleNext ==
    /\ Looping
    /\ LET m == inbox.all[inbox.next] IN
       /\ \/ HandleThrows(m)
          \/ m # NullMessage /\ HandleFromMe(m)
          \/ m # NullMessage /\ HandleIgnored(m)
          \/ m # NullMessage /\ HandleText(m)
       /\ inbox' = LoopStep(m)

NextWebhook ==
    \/ (\E body \in Payloads : Webhook(body)) /\ UNCHANGED << rateLimitStore, passedAt, serverJs >>
    \/ HandleNext /\ UNCHANGED << rateLimitStore, passedAt, serverJs >>
    \/ ~Looping /\ (\E p \in Phones : DebounceFire(p)) /\ UNCHANGED others
    \/ ~Looping /\ (\E t \in turns, ok \in BOOLEAN : HandoffSendDone(t, ok)) /\ UNCHANGED others
    \/ ~Looping /\ (\E t \in turns : GenReturn(t, <<"r1">>)) /\ UNCHANGED others
    \/ ~Looping /\ (\E t \in turns : GenFail(t)) /\ UNCHANGED others
    \/ ~Looping /\ (\E t \in turns, ok \in BOOLEAN : ReplySendDone(t, ok)) /\ UNCHANGED others
    \/ ~Looping /\ (\E p \in Phones : FollowUpFire(p)) /\ UNCHANGED others
    \/ ~Looping /\ (\E n \in nudges, ok \in BOOLEAN : NudgeSendDone(n, ok)) /\ UNCHANGED others
    \/ ~Looping /\ Tick /\ UNCHANGED others

\* the program fed by webhook requests that carry arrays of messages
SpecWebhook == Init /\ [][NextWebhook]_vars

\* what the event loop does by itself: the clock advances, a due timer's
\* callback runs, an awaited call returns, fails or times out
Progress ==
    \/ (\E p \in Phones : DebounceFire(p)) /\ UNCHANGED others
    \/ (\E t \in turns, ok \in BOOLEAN : HandoffSendDone(t, ok)) /\ UNCHANGED others
    \/ (\E t \in turns, r \in Replies : GenReturn(t, r)) /\ UNCHANGED others
    \/ (\E t \in turns : GenFail(t)) /\ UNCHANGED others
    \/ (\E t \in turns, ok \in BOOLEAN : ReplySendDone(t, ok)) /\ UNCHANGED others
    \/ (\E p \in Phones : FollowUpFire(p)) /\ UNCHANGED others
    \/ (\E n \in nudges, ok \in BOOLEAN : NudgeSendDone(n, ok)) /\ UNCHANGED others
    \/ Tick /\ UNCHANGED others

\* the program under a running event loop (every collaborator call is made
\* with a timeout, so none stays pending for ever)
FairSpec == Spec /\ WF_vars(Progress)

\* ===================================================================== claims
\* a step in which the debounce timer of p flushed a non-empty batch
Flushed(p) == nextTurn' = nextTurn + 1 /\ step'.phone = p
\* a step in which handleMessage accepted a customer text of p
Accepted(p) == budget'[p] = budget[p] - 1 /\ step'.act = "text"

\* the texts in arrival order with one blank between neighbours
RECURSIVE Spaced(_)
Spaced(b) ==
    IF Len(b) = 0 THEN <<>>
    ELSE IF Len(b) = 1 THEN b[1].text
    ELSE Spaced(SubSeq(b, 1, Len(b) - 1)) \o <<" ">> \o b[Len(b)].text

\* C1: debounce coalescing.  A text that arrives less than DEBOUNCE_WAIT_MS
\* after the previous one finds that one still unflushed (the burst is never
\* processed message by message); while texts are pending, the one debounce
\* timer is due DEBOUNCE_WAIT_MS after the last of them; and the flush
\* processes, once, all texts accepted since the previous flush, combined as
\* those texts joined by single blanks in arrival order.
C1_DebounceCoalescing ==
    [][\A p \in Phones :
        /\ (Accepted(p) /\ lastArrivalAt[p] > now - DEBOUNCE_WAIT_MS)
              => (burst[p] # <<>> /\ burst'[p] = Append(burst[p], burst'[p][Len(burst'[p])]))
        /\ burst[p] # <<>>
              => spamTracker[p].debounceTimer = lastArrivalAt[p] + DEBOUNCE_WAIT_MS
        /\ (step'.act \in {"flush", "flushEmpty"} /\ step'.phone = p /\ step' # step)
              => /\ Flushed(p)
                 /\ burst[p] # <<>>
                 /\ step'.combined = Spaced(burst[p])
                 /\ burst'[p] = <<>>
                 /\ spamTracker'[p].messageQueue = <<>>
                 /\ spamTracker'[p].debounceTimer = NoTimer
      ]_vars

\* C1 witness: a burst of two texts has just been flushed as one batch
C1_Witness ==
    /\ step.act = "flush"
    /\ step.combined = <<"ok", " ", "PRICE">>
    /\ nextTurn = 2

\* C2: for every flushed batch the gates run in the order human override,
\* escalation, safe mode, rate limit and stop at the first that suppresses
\* (a gate after it is not evaluated: its lazy clean-up has not run); the
\* generation collaborator is called only if all four gates passed.
C2_GateOrder ==
    [][\A p \in Phones : Flushed(p) =>
        LET text == step'.combined
            ovA == humanOverrideStore[p] # NoEntry /\ now < humanOverrideStore[p]
            esA == escalationStore[p] # NoEntry /\ now < escalationStore[p]
            safe == shouldAutoReply(safeModeTracker, p, text)
            lim == spamTracker[p].has /\
                   now - spamTracker[p].lastReplyAt <
                       (IF leadStore[p] = "HOT" THEN HOT_INTERVAL_MS
                        ELSE SPAM_INTERVAL_MS)
            suppressed == ovA \/ esA \/ ~safe \/ lim
        IN  /\ step'.gates =
                  IF ovA THEN <<"override">>
                  ELSE IF esA THEN <<"override", "escalation">>
                  ELSE IF ~safe THEN <<"override", "escalation", "safemode">>
                  ELSE <<"override", "escalation", "safemode", "ratelimit">>
            /\ ovA => escalationStore'[p] = escalationStore[p]
            /\ step'.call.call = "gen" => ~suppressed
            /\ suppressed => (step'.call = NoCall /\ turns' = turns)
            /\ ~suppressed => (step'.call # NoCall /\ turns' # turns)
      ]_vars

\* C2 witness: a batch passed the override, escalation and safe-mode gates
\* and was stopped by the rate limit, so generation was not called
C2_Witness ==
    /\ step.act = "flush"
    /\ step.gates = <<"override", "escalation", "safemode", "ratelimit">>
    /\ step.call = NoCall

\* the original statement of C3: no delivery call is made in a turn whose
\* batch holds a text that arrived while the human override was active
C3_Original_ArrivalUnderOverride ==
    step.call.call = "send" => ~step.call.underOvr

\* C3 (amended): a batch flushed while the human override of its sender is
\* active (before the operator event's time + HUMAN_OVERRIDE_MS) yields no
\* delivery call: the turn stops at the override gate, whatever keywords the
\* text holds, calls no collaborator, records nothing, and the flush leaves
\* no follow-up timer armed.
C3_FlushUnderOverride ==
    [][\A p \in Phones :
        (Flushed(p) /\ humanOverrideStore[p] # NoEntry /\ now < humanOverrideStore[p])
            => /\ step'.call = NoCall
               /\ step'.gates = <<"override">>
               /\ turns' = turns
               /\ nudges' = nudges
               /\ conversationHistory' = conversationHistory
               /\ followUpStore'[p].timerId = NoTimer
      ]_vars

\* C3 witness: a batch holding a trigger keyword was flushed under an active
\* override and stopped at the override gate
C3_Witness ==
    /\ step.act = "flush"
    /\ step.gates = <<"override">>
    /\ hasTrigger(step.combined)
    /\ humanOverrideStore[step.phone] > now

\* C4 (as claimed): no delivery call is made to P at an instant at which
\* P's human override is active
C4_NoDeliveryUnderOverride ==
    step.call.call = "send" => ~step.call.ovr

\* a text that makes checkAndSetEscalation return a message
HandoffText(text) == orderHit(text) \/ escalationHit(text)
HandoffFor(text) == IF orderHit(text) THEN CLOSING_MSG ELSE ESCALATION_MSG

\* C5: handoff excludes generation.  A turn whose text makes
\* checkAndSetEscalation return a message sends that message directly and
\* never waits for, or has called, the generation collaborator; only turns
\* without such a text reach generation.
C5_HandoffExcludesGeneration ==
    /\ \A t \in turns :
          HandoffText(t.text) <=> (t.pc = "handoffSend" /\ t.reply = HandoffFor(t.text))
    /\ (step.act = "flush" /\ step.call # NoCall) =>
          IF HandoffText(step.combined)
          THEN /\ step.call.call = "send"
               /\ step.call.kind = "handoff"
               /\ step.call.msg = HandoffFor(step.combined)
          ELSE step.call.call = "gen"
    /\ step.call.kind = "reply" =>
          \E t \in turns : t.id = step.call.turn /\ ~HandoffText(t.text)

\* C5 witness: a turn has just sent the handoff message and waits for that
\* delivery, not for generation
C5_Witness ==
    /\ step.act = "flush"
    /\ step.call.kind = "handoff"
    /\ \E t \in turns : t.id = step.call.turn /\ t.pc = "handoffSend"

\* C6 (as claimed): no delivery call is made to P while an escalation or
\* closing silence, set by an earlier handoff, is active for P
C6_SilentWhileEscalated ==
    step.call.call = "send" => ~step.call.esc

\* C7: escalation priority.  For a turn whose text holds an order keyword
\* and a discount or confusion keyword, the closing path is taken: CLOSING_MSG
\* is sent and silencedUntil is now + CLOSING_MS, which is the longer silence.
C7_ClosingPriority ==
    (/\ step.act = "flush"
     /\ step.call # NoCall
     /\ orderHit(step.combined)
     /\ escalationHit(step.combined))
        => /\ step.call.kind = "handoff"
           /\ step.call.msg = CLOSING_MSG
           /\ escalationStore[step.phone] = now + CLOSING_MS
           /\ CLOSING_MS > ESCALATION_MS

\* C7 witness: a text with an order keyword and a discount keyword was
\* processed
C7_Witness ==
    /\ step.act = "flush"
    /\ step.call.kind = "handoff"
    /\ orderHit(step.combined)
    /\ escalationHit(step.combined)

\* C8: lead-intent ratchet.  No step lowers the rank of a stored intent, and
\* a turn is given the stored intent, which is at least the rank of its text.
C8_IntentRatchet ==
    [][\A p \in Phones :
        /\ RANK(leadStore'[p]) >= RANK(leadStore[p])
        /\ \A t \in turns' \ turns :
              (t.phone = p /\ t.id = nextTurn) =>
                  /\ t.intent = leadStore'[p]
                  /\ RANK(t.intent) >= RANK(classify(t.text))
                  /\ RANK(t.intent) >= RANK(leadStore[p])
      ]_vars

\* C8 witness: a COLD text was classified for a participant stored as HOT,
\* and the turn kept HOT
C8_Witness ==
    \E t \in turns :
        /\ step.act = "flush"
        /\ t.id = step.call.turn
        /\ classify(t.text) = "COLD"
        /\ t.intent = "HOT"
        /\ leadStore[t.phone] = "HOT"

\* the original statement of C9: the first flushed text of a participant
\* with empty prior state invokes generation, whatever its keywords
C9_Original_FirstMessageGenerates ==
    [][\A p \in Phones :
        (Flushed(p) /\ EmptyPrior(p)) => step'.call.call = "gen"
      ]_vars

\* C9 (amended): the first flushed text of a participant with empty prior
\* state passes the four gates whatever its keywords; it invokes generation
\* unless it holds an escalation or closing keyword (then the handoff message
\* is sent); and when generation returns before any other batch was flushed,
\* the reply's delivery call is made and the history is exactly the user turn
\* followed by the assistant turn.
C9_FirstMessage ==
    [][\A p \in Phones :
        /\ (Flushed(p) /\ EmptyPrior(p)) =>
              /\ step'.gates = <<"override", "escalation", "safemode", "ratelimit">>
              /\ step'.call.call = IF HandoffText(step'.combined) THEN "send" ELSE "gen"
              /\ conversationHistory'[p].turns =
                    << [role |-> "user", content |-> step'.combined] >>
        /\ \A t \in turns :
              (/\ t.phone = p /\ t.first /\ t.pc = "gen"
               /\ nextTurn = t.id + 1
               /\ t \notin turns'
               /\ step'.act \in {"genReturn", "genBlocked"})
                  => /\ step'.act = "genReturn"
                     /\ step'.call.call = "send"
                     /\ step'.call.kind = "reply"
                     /\ conversationHistory'[p].turns =
                           << [role |-> "user", content |-> t.text],
                              [role |-> "assistant", content |-> step'.call.msg] >>
      ]_vars

\* C9 witness: the reply to a first message without any keyword is being
\* delivered and the history is one user turn and one assistant turn
C9_Witness ==
    \E t \in turns :
        /\ t.first /\ t.pc = "replySend" /\ t.text = <<"ok">>
        /\ step.act = "genReturn"
        /\ Len(conversationHistory[t.phone].turns) = 2

\* C10 (as claimed): a batch flushed when its sender spoke last
\* (userMsgCount > 0, lastSenderWasUs false) and no silence is active passes
\* the safe-mode gate, whatever its text
C10_CustomerSpokeLastPasses ==
    [][\A p \in Phones :
        (/\ Flushed(p)
         /\ safeModeTracker[p].userMsgCount > 0
         /\ ~safeModeTracker[p].lastSenderWasUs
         /\ ~(humanOverrideStore[p] # NoEntry /\ now < humanOverrideStore[p])
         /\ ~(escalationStore[p] # NoEntry /\ now < escalationStore[p]))
            => step'.gates = <<"override", "escalation", "safemode", "ratelimit">>
      ]_vars

\* the override and the escalation silence of p as the gates read them
OverrideOn(p) == humanOverrideStore[p] # NoEntry /\ now < humanOverrideStore[p]
EscalationOn(p) == escalationStore[p] # NoEntry /\ now < escalationStore[p]
AllGates == <<"override", "escalation", "safemode", "ratelimit">>

\* C11: safe mode rule (c).  A batch flushed when the bot or the operator
\* replied last (userMsgCount > 0, lastSenderWasUs true), with no override and
\* no escalation silence active, passes the safe-mode gate exactly when its
\* lower-cased text holds a trigger keyword.  A batch holding "price" (and no
\* escalation or closing keyword), flushed after an operator event whose
\* override has expired, passes the safe-mode gate, and the call its turn
\* makes, once the interval rule let it through, is the generation call.
C11_SafeModeRuleC ==
    [][\A p \in Phones :
        (Flushed(p) /\ ~OverrideOn(p) /\ ~EscalationOn(p)) =>
          /\ (safeModeTracker[p].userMsgCount > 0 /\ safeModeTracker[p].lastSenderWasUs)
                => /\ (step'.gates = AllGates) <=>
                          (\E kw \in TRIGGER_KEYWORDS :
                              includes(toLowerCase(step'.combined), kw))
                   /\ (step'.call # NoCall /\ ~HandoffText(step'.combined))
                          => step'.call.call = "gen"
          /\ (/\ safeModeTracker[p].lastSenderWasUs
               /\ humanOverrideStore[p] # NoEntry
               /\ includes(toLowerCase(step'.combined), <<"price">>))
                => /\ step'.gates = AllGates
                   /\ (step'.call # NoCall /\ ~HandoffText(step'.combined))
                          => step'.call.call = "gen"
      ]_vars

\* C11 witness: the bot replied last, the customer then sent "PRICE", and the
\* flush passed the gates and called generation
C11_Witness ==
    /\ step.act = "flush"
    /\ step.combined = <<"PRICE">>
    /\ step.call.call = "gen"
    /\ safeModeTracker[step.phone].userMsgCount = 2
    /\ LET h == conversationHistory[step.phone].turns
       IN  Len(h) = 3 /\ h[2].role = "assistant"

\* C12 (as claimed): when getOpenAIReply returns for P the text it returned
\* for P the time before, no delivery call is made for it
C12_DuplicateSkipped ==
    [][\A p \in Phones :
        (step'.act = "genReturn" /\ step'.phone = p /\ turns' # turns)
            => step'.call.msg # lastGenerated[p]
      ]_vars

\* C13 (as claimed): the delivery calls of two replies to P are at least the
\* shortest interval (that of HOT leads) apart, also when the turns overlap
C13_RepliesApart ==
    \A t1, t2 \in turns :
        (/\ t1.id # t2.id /\ t1.phone = t2.phone
         /\ t1.pc = "replySend" /\ t2.pc = "replySend" /\ t1.by >= t2.by)
            => t1.by - t2.by >= HOT_INTERVAL_MS

\* C14: generation failure.  When getOpenAIReply fails the turn ends there:
\* no collaborator is called, the trackers (lastSenderWasUs among them) are
\* left as they are, and, when no other turn of the participant ran since
\* the batch was flushed, the history is again what it was before the turn.
C14_GenerationFailure ==
    [][\A t \in turns :
        (/\ t.pc = "gen"
         /\ step'.act = "genFailed" /\ step'.phone = t.phone
         /\ turns' = turns \ {t})
            => /\ step'.call = NoCall
               /\ nudges' = nudges
               /\ safeModeTracker' = safeModeTracker
               /\ spamTracker' = spamTracker
               /\ \A u \in turns' : u \in turns
               /\ ((t.alone /\ nextTurn = t.id + 1)
                     => conversationHistory'[t.phone].turns = t.before)
      ]_vars

\* C14 witness: generation failed for the second message of a conversation;
\* the history is the first exchange again and the customer spoke last
C14_Witness ==
    /\ step.act = "genFailed"
    /\ Len(conversationHistory[step.phone].turns) = 2
    /\ conversationHistory[step.phone].turns[2].role = "assistant"
    /\ safeModeTracker[step.phone].userMsgCount = 2
    /\ ~safeModeTracker[step.phone].lastSenderWasUs

\* C15: delivery failure.  When sendWhatsAppMessage fails for a generated
\* reply the turn ends: no further call is made for it (one delivery call per
\* turn), and nothing recorded before the attempt is taken back: the history
\* with the user turn and the assistant turn, and lastSenderWasUs, stay as
\* they are; lastReplyAt and lastReplyText are not written.
C15_DeliveryFailure ==
    [][\A t \in turns :
        (/\ t.pc = "replySend"
         /\ step'.act = "replyFailed" /\ step'.phone = t.phone
         /\ turns' = turns \ {t})
            => /\ step'.call = NoCall
               /\ \A u \in turns' : u.id # t.id
               /\ conversationHistory' = conversationHistory
               /\ safeModeTracker' = safeModeTracker
               /\ spamTracker' = spamTracker
               /\ ((t.alone /\ nextTurn = t.id + 1)
                     => /\ LET h == conversationHistory'[t.phone].turns IN
                            /\ Len(h) >= 2
                            /\ h[Len(h) - 1] = [role |-> "user", content |-> t.text]
                            /\ h[Len(h)] = [role |-> "assistant", content |-> t.reply]
                        /\ safeModeTracker'[t.phone].lastSenderWasUs)
      ]_vars

\* C15 witness: the delivery of the first reply failed; the exchange is in the
\* history and we count as the last sender
C15_Witness ==
    /\ step.act = "replyFailed"
    /\ Len(conversationHistory[step.phone].turns) = 2
    /\ conversationHistory[step.phone].turns[2].role = "assistant"
    /\ safeModeTracker[step.phone].lastSenderWasUs
    /\ turns = {}

\* the original statement of C16: over the whole lifetime of a conversation
\* no more than 2 nudges are sent to a participant
C16_Original_LifetimeBound ==
    \A p \in Phones : followUpLog[p].sent <= 2

\* C16 (amended): between two interactions with a participant (a flushed
\* customer batch or an operator event, each of which starts a new cycle) no
\* more than 2 follow-up nudges are delivered to the participant, and a
\* stage-2 timer is only ever armed after exactly one delivered nudge.
C16_CycleBound ==
    \A p \in Phones :
        /\ followUpLog[p].cycle <= 2
        /\ followUpStore[p].count <= 2
        /\ followUpStore[p].stage = 2 => followUpStore[p].count = 1

\* C16 witness: the second nudge of a cycle has been delivered
C16_Witness ==
    /\ step.act = "nudgeSent"
    /\ followUpLog[step.phone].cycle = 2
    /\ followUpStore[step.phone].count = 2

state == << spamTracker, conversationHistory, safeModeTracker, leadStore,
            humanOverrideStore, escalationStore, followUpStore, memoryFile,
            turns, nudges, nextTurn, burst, lastArrivalAt, lastGenerated,
            followUpLog, pendingTimers >>

\* C18: non-text messages are ignored.  A customer message that is not of
\* type text, or has an empty or missing body, or no sender, evaluates no gate,
\* calls no collaborator and leaves every store, the pending batch and the
\* timers as they are; what handleMessage queues is always a non-empty text
\* of a known sender.
C18_NonTextIgnored ==
    [][/\ step'.act = "dropped"
            => /\ state' = state
               /\ step'.gates = <<>> /\ step'.call = NoCall
       /\ \A p \in Phones :
            Accepted(p)
               => LET q == spamTracker'[p].messageQueue
                  IN  /\ q = Append(spamTracker[p].messageQueue, q[Len(q)])
                      /\ q[Len(q)] # <<>>
                      /\ q[Len(q)][1] # " "
      ]_vars

\* C18 witness: a message was dropped while a batch of texts was pending
C18_Witness ==
    /\ step.act = "dropped"
    /\ spamTracker["p1"].messageQueue # <<>>
    /\ spamTracker["p1"].debounceTimer > now

\* C19: operator-authored events are state-update-only.  Handling a from_me
\* event calls no collaborator and appends nothing to the history or to the
\* pending batch; it sets lastSenderWasUs, sets the override to
\* now + HUMAN_OVERRIDE_MS and leaves no follow-up timer pending; with an
\* empty 'to' field it changes nothing.
C19_OperatorEventStateOnly ==
    [][\A p \in Phones :
        /\ (step'.act = "from_me" /\ step'.phone = p /\ budget'[p] # budget[p])
              => /\ step'.call = NoCall /\ step'.gates = <<>>
                 /\ turns' = turns /\ nudges' = nudges
                 /\ conversationHistory' = conversationHistory
                 /\ spamTracker' = spamTracker
                 /\ leadStore' = leadStore /\ escalationStore' = escalationStore
                 /\ safeModeTracker'[p].lastSenderWasUs
                 /\ safeModeTracker'[p].userMsgCount = safeModeTracker[p].userMsgCount
                 /\ humanOverrideStore'[p] = now + HUMAN_OVERRIDE_MS
                 /\ followUpStore'[p].timerId = NoTimer
                 /\ \A q \in Phones \ {p} :
                       /\ safeModeTracker'[q] = safeModeTracker[q]
                       /\ humanOverrideStore'[q] = humanOverrideStore[q]
                       /\ followUpStore'[q] = followUpStore[q]
        /\ (step'.act = "dropped" /\ budget' = budget) => state' = state
      ]_vars

\* C19 witness: an operator event was handled after a customer batch had
\* been processed (which had armed the follow-up timer)
C19_Witness ==
    /\ step.act = "from_me"
    /\ humanOverrideStore[step.phone] = now + HUMAN_OVERRIDE_MS
    /\ conversationHistory[step.phone].has
    /\ followUpStore[step.phone].timerId = NoTimer

\* the original statement of C20: every flushed batch handled by
\* executeMainLogic increments userMsgCount by one
C20_Original_EveryFlushCounts ==
    [][\A p \in Phones :
        Flushed(p) =>
            safeModeTracker'[p].userMsgCount = safeModeTracker[p].userMsgCount + 1
      ]_vars

\* C20 (amended): userMsgCount never decreases; it increments by exactly 1
\* for every flushed batch that passes the four gates of executeMainLogic, and
\* nothing else changes it (a batch stopped by a gate is not counted).
C20_CounterMonotone ==
    [][\A p \in Phones :
        LET c == safeModeTracker[p].userMsgCount
            d == safeModeTracker'[p].userMsgCount
            counted == /\ Flushed(p)
                       /\ step'.gates = AllGates
                       /\ step'.call # NoCall
        IN  /\ d >= c
            /\ counted => d = c + 1
            /\ ~counted => d = c
      ]_vars

\* C20 witness: the second batch of a participant passed the gates and was
\* counted
C20_Witness ==
    /\ step.act = "flush"
    /\ step.call # NoCall
    /\ safeModeTracker[step.phone].userMsgCount = 2

\* the original statement of C21: after every handler step that appended a
\* user turn or an assistant turn the history holds at most 2 * MAX_HISTORY
\* entries
C21_Original_CapAfterEachAppend ==
    \A p \in Phones : Len(conversationHistory[p].turns) <= 2 * MAX_HISTORY

\* C21 (amended): the history is trimmed after the append of an assistant
\* turn only.  Once the handler step that appended an assistant turn has
\* finished, the history holds at most 2 * MAX_HISTORY entries: they are the
\* newest entries of the history with the assistant turn appended, in their
\* order (the oldest are removed first).  No other step removes an entry from
\* the front, so after the append of a user turn the history may be longer.
C21_CapAfterAssistantAppend ==
    [][\A p \in Phones :
        LET h == conversationHistory[p].turns
            h1 == conversationHistory'[p].turns
            full == Append(h, [role |-> "assistant", content |-> step'.call.msg])
            keep == IF Len(full) > 2 * MAX_HISTORY THEN 2 * MAX_HISTORY ELSE Len(full)
        IN  /\ (step'.act = "genReturn" /\ step'.phone = p)
                => /\ Len(h1) <= 2 * MAX_HISTORY
                   /\ h1 = SubSeq(full, Len(full) - keep + 1, Len(full))
            /\ ~(step'.act = "genReturn" /\ step'.phone = p)
                => \/ h1 = h
                   \/ h1 = Append(h, [role |-> "user", content |-> step'.combined])
                   \/ h # <<>> /\ h1 = SubSeq(h, 1, Len(h) - 1)
      ]_vars

\* C21 witness: the second exchange found two entries in the history; once
\* its assistant turn is appended the history holds the second exchange only
C21_Witness ==
    \E t \in turns :
        /\ step.act = "genReturn" /\ t.pc = "replySend"
        /\ t.alone /\ nextTurn = t.id + 1
        /\ Len(t.before) = 2 * MAX_HISTORY
        /\ conversationHistory[t.phone].turns =
                << [role |-> "user", content |-> t.text],
                   [role |-> "assistant", content |-> t.reply] >>

\* C22 (as claimed): between handler steps the durable record {safeMode,
\* leads} equals the in-memory safeModeTracker and leadStore
C22_DurableTracksMemory ==
    memoryFile = saveMemory(safeModeTracker, leadStore)

\* the messages of p that passed isRateLimited less than RATE_WINDOW ago
RECURSIVE passedSince(_, _)
passedSince(p, a) ==
    IF a < 0 THEN 0 ELSE passedAt[p][a] + passedSince(p, a - 1)

\* C23 (as claimed): in any time interval of length RATE_WINDOW at most
\* RATE_MAX messages of one phone pass isRateLimited
C23_AtMostMaxPerWindow ==
    \A p \in Phones : passedSince(p, RATE_WINDOW - 1) <= RATE_MAX

\* C24: webhook batch isolation.  While the for loop of a webhook request has
\* elements left, each step hands the next element of the array to
\* handleMessage and moves on by one, whatever the handling did: an accepted
\* text is queued, an operator event silences the bot for its customer, and an
\* element whose handling throws changes no state and does not end the loop.
\* The loop starts only for a non-empty array, at its first element; a body
\* whose messages is absent, not an array or empty changes no state.
C24_WebhookBatchIsolation ==
    [][/\ Looping =>
            LET m == inbox.all[inbox.next] IN
            /\ inbox' = [all |-> inbox.all, next |-> inbox.next + 1]
            /\ m = NullMessage => (state' = state /\ budget' = budget)
            /\ (m # NullMessage /\ ~m.from_me /\ ~Skipped(m))
                  => /\ step'.act = "text"
                     /\ spamTracker'[PhoneOf(m.from)].messageQueue =
                            Append(spamTracker[PhoneOf(m.from)].messageQueue, trim(m.body))
            /\ (m # NullMessage /\ m.from_me /\ m.to # NoJid)
                  => /\ step'.act = "from_me"
                     /\ humanOverrideStore'[PhoneOf(m.to)] = now + HUMAN_OVERRIDE_MS
       /\ step'.act = "skipped"
            => (state' = state /\ budget' = budget /\ inbox' = inbox)
       /\ (~Looping /\ inbox' # inbox)
            => /\ step'.act = "received"
               /\ inbox'.all # <<>> /\ inbox'.next = 1
               /\ state' = state /\ budget' = budget
      ]_vars

\* C24 witness: the request carried a null element followed by a text; the
\* loop has ended and the text is queued
C24_Witness ==
    /\ Len(inbox.all) = 2 /\ inbox.all[1] = NullMessage /\ inbox.next = 3
    /\ step.act = "text"
    /\ spamTracker["p1"].messageQueue = << <<"ok">> >>

\* C25 (as claimed): at most one generation call is in flight for a
\* participant
C25_OneGenerationInFlight ==
    \A p \in Phones :
        Cardinality({t \in turns : t.phone = p /\ t.pc = "gen"}) <= 1

\* C26: single timer per purpose.  For every participant at most one debounce
\* timer and at most one follow-up timer is pending at any time, and it is the
\* one whose handle the participant's entry holds: arming a timer clears the
\* one armed before, also when the follow-up callback arms the next stage
\* after its delivery returned.
C26_SingleTimerPerPurpose ==
    \A p \in Phones :
        /\ pendingTimers.debounce[p] <= 1
        /\ pendingTimers.followUp[p] <= 1
        /\ pendingTimers.debounce[p] = 1 <=> spamTracker[p].debounceTimer # NoTimer
        /\ pendingTimers.followUp[p] = 1 <=> followUpStore[p].timerId # NoTimer

\* C26 witness: a batch flushed while the first nudge was being delivered armed
\* a stage-1 timer (its generation call is still pending); the callback, once
\* the delivery returned, armed stage 2, and one follow-up timer is pending
C26_Witness ==
    \E t \in turns :
        /\ t.pc = "gen"
        /\ step.act = "nudgeSent" /\ step.phone = t.phone
        /\ followUpStore[t.phone].stage = 2
        /\ pendingTimers.followUp[t.phone] = 1

\* C27: no message is lost or duplicated by batching.  An accepted text is
\* added at the end of the participant's queue and the queued ones stay; a
\* flush processes the whole queue as one batch and leaves the queue empty; no
\* other step changes the queue; and a queue that holds a text is eventually
\* flushed.
C27_NoMessageLostOrDuplicated ==
    /\ [][\A p \in Phones :
            LET q == spamTracker[p].messageQueue
                q1 == spamTracker'[p].messageQueue
            IN  /\ Accepted(p) => (Len(q1) = Len(q) + 1 /\ SubSeq(q1, 1, Len(q)) = q)
                /\ Flushed(p) => (q # <<>> /\ step'.combined = join(q) /\ q1 = <<>>)
                /\ (~Accepted(p) /\ ~Flushed(p)) => q1 = q
         ]_vars
    /\ \A p \in Phones :
          (spamTracker[p].messageQueue # <<>>) ~> (spamTracker[p].messageQueue = <<>>)

\* C27 witness: the second batch of a participant has been flushed and holds
\* the one text that arrived after the first flush
C27_Witness ==
    /\ step.act = "flush"
    /\ nextTurn = 3
    /\ step.combined = <<"when">>
    /\ spamTracker[step.phone].messageQueue = <<>>

\* C28 (as claimed): a later batch of a participant has its user turn appended,
\* and its reply handed to delivery, only after the user turn and the reply of
\* every earlier batch: when a handler step makes the call of a turn, no
\* earlier turn of the participant still waits at an await
C28_BatchesInOrder ==
    step.call # NoCall =>
        \A t \in turns : ~(t.phone = step.phone /\ t.id < step.call.turn)

\* the in-memory records and the suspended activations of participant q
recordsOf(q) ==
    << spamTracker[q], conversationHistory[q], safeModeTracker[q], leadStore[q],
       humanOverrideStore[q], escalationStore[q], followUpStore[q],
       pendingTimers.debounce[q], pendingTimers.followUp[q],
       {t \in turns : t.phone = q}, {n \in nudges : n.phone = q} >>

\* C29: cross-participant isolation.  A handler step for one participant
\* leaves the records of every other participant as they are (only the
\* passing of time changes them), and a timer of a participant that is due
\* can fire whatever calls are pending for other participants.
C29_CrossParticipantIsolation ==
    /\ [][\A q \in Phones :
            (step'.phone # q /\ step'.act # "tick") => recordsOf(q)' = recordsOf(q)
         ]_vars
    /\ [](\A q \in Phones :
            /\ (spamTracker[q].has /\ spamTracker[q].debounceTimer = now)
                    => ENABLED DebounceFire(q)
            /\ (followUpStore[q].has /\ followUpStore[q].timerId = now)
                    => ENABLED FollowUpFire(q))

\* C29 witness: the batch of p2 has just been flushed while the generation
\* call made for p1 is still pending
C29_Witness ==
    \E t \in turns :
        /\ t.phone = "p1" /\ t.pc = "gen"
        /\ step.act = "flush" /\ step.phone = "p2" /\ step.call # NoCall
        /\ t.id < step.call.turn

\* C30 (as claimed): when the delivery of a generated reply or of a handoff /
\* closing message to P has succeeded and no batch of P was flushed since the
\* turn began, and after every operator event for P, lastSenderWasUs[P] is
\* true; it turns false only in a step that appends a user turn of P
C30_FlagAfterOutgoing ==
    [][/\ \A t \in turns :
            ((HandoffSendDone(t, TRUE) \/ ReplySendDone(t, TRUE))
                /\ t.id = nextTurn - 1)
                    => safeModeTracker'[t.phone].lastSenderWasUs
       /\ \A p \in Phones :
            /\ (step'.act = "from_me" /\ step'.phone = p)
                    => safeModeTracker'[p].lastSenderWasUs
            /\ (safeModeTracker[p].lastSenderWasUs
                    /\ ~safeModeTracker'[p].lastSenderWasUs)
                    => (Flushed(p) /\ step'.call # NoCall)
      ]_vars

\* the stages of the logged deliveries, with or without those whose call was
\* made before the cycle began
RECURSIVE stagesOf(_, _)
stagesOf(log, all) ==
    IF log = <<>> THEN <<>>
    ELSE (IF all \/ ~Head(log).carried THEN <<Head(log).stage>> ELSE <<>>)
            \o stagesOf(Tail(log), all)
Staged(stages) == stages \in {<<>>, <<1>>, <<1, 2>>}

\* C31 (as claimed): the nudge counter of every participant is in 0..2, and
\* among the nudges sent to a participant since its last customer flush or
\* operator event the stage-2 message comes only after the stage-1 message
\* and each stage message is sent at most once (whether or not a nudge whose
\* delivery was under way when the cycle began is counted as sent in it)
C31_FollowUpStaging ==
    \A p \in Phones :
        /\ followUpStore[p].count \in 0..2
        /\ \/ Staged(stagesOf(followUpLog[p].msgs, TRUE))
           \/ Staged(stagesOf(followUpLog[p].msgs, FALSE))

\* C32 (as claimed): an operator event for P leaves the follow-up timer of P
\* pending, and after the last operator event for P, unless P sends a text,
\* the timer eventually fires and a nudge is sent to P
C32_NudgeAfterOperatorMessage ==
    /\ [][\A p \in Phones :
            (step'.act = "from_me" /\ step'.phone = p /\ budget'[p] # budget[p])
                => followUpStore'[p].timerId # NoTimer
         ]_vars
    /\ \A p \in Phones :
          (step.act = "from_me" /\ step.phone = p)
              ~> \/ step.act = "followUpFire" /\ step.phone = p /\ step.call # NoCall
                 \/ step.act = "text" /\ step.phone = p

\* the delay the follow-up timer of a stage is armed with
followUpDelay(stage) ==
    IF stage = 1 THEN FOLLOWUP_T1_MS ELSE FOLLOWUP_T2_MS - FOLLOWUP_T1_MS

\* C33 (as claimed): when the follow-up timer of P fires, no nudge is sent if
\* a text of P arrived after the timer was armed (a text still waiting in the
\* debounce queue included) or if the human override of P is active
C33_NoNudgeAfterReply ==
    [][\A p \in Phones :
        (step'.act = "followUpFire" /\ step'.phone = p /\ step'.call # NoCall
            /\ followUpStore[p].timerId = now)
            => /\ ~(/\ spamTracker[p].messageQueue # <<>>
                    /\ lastArrivalAt[p] > now - followUpDelay(followUpStore[p].stage))
               /\ ~isHumanOverrideActive(humanOverrideStore, p, now)
      ]_vars

\* C34 (as claimed): src/server.js delivers at most one follow-up message to
\* a participant over the conversation's lifetime
C34_SingleFollowUp ==
    \A p \in Phones : serverJs.delivered[p] <= 1

\* the outcomes that end a turn waiting at the given await
EndsOf(pc) ==
    IF pc = "handoffSend" THEN {"handoffSent", "handoffFailed"}
    ELSE IF pc = "gen" THEN {"genFailed", "genBlocked"}
    ELSE {"replySent", "replyFailed"}

\* C35: every flushed turn ends in exactly one terminal outcome and, given
\* that collaborator calls return or fail, does end.  A flush is either
\* suppressed by a gate (no turn starts, no call is made) or starts the turn at
\* its first await; a turn leaves only by the outcome of the await it waits at
\* (handoff delivery resolved, generation failed, duplicate blocked, reply
\* delivery resolved), one turn per step, and never comes back; a turn moves
\* only from generation to the delivery of its reply; when the participant's
\* only turn ends the participant has none in flight; and every turn in flight
\* eventually ends.
C35_TurnTermination ==
    /\ [][LET ids == {t.id : t \in turns}
              ids1 == {t.id : t \in turns'}
          IN  /\ ids1 \subseteq ids \cup {nextTurn}
              /\ \A p \in Phones :
                    Flushed(p) =>
                        \/ /\ step'.call = NoCall
                           /\ turns' = turns
                        \/ /\ step'.gates = AllGates
                           /\ step'.call # NoCall
                           /\ \E t \in turns' :
                                 /\ t.id = nextTurn /\ t.phone = p
                                 /\ t.pc \in {"handoffSend", "gen"}
                                 /\ turns' = turns \cup {t}
              /\ Cardinality(ids \ ids1) <= 1
              /\ (\E t \in turns : t.id \notin ids1)
                    <=> step'.act \in {"handoffSent", "handoffFailed", "genFailed",
                                       "genBlocked", "replySent", "replyFailed"}
              /\ \A t \in turns :
                    t.id \notin ids1 =>
                        /\ step'.act \in EndsOf(t.pc)
                        /\ step'.phone = t.phone
                        /\ (\A u \in turns : u.phone = t.phone => u = t)
                              => \A u \in turns' : u.phone # t.phone
              /\ \A t \in turns, u \in turns' :
                    (t.id = u.id /\ t.pc # u.pc)
                        => (t.pc = "gen" /\ u.pc = "replySend")
         ]_vars
    /\ \A id \in 1..MaxEvents :
          (\E t \in turns : t.id = id) ~> ~(\E t \in turns : t.id = id)

\* C35 witness: after the participant's first turn has ended, a later message
\* of the same participant has started a new turn
C35_Witness ==
    /\ step.act = "flush"
    /\ step.call # NoCall
    /\ nextTurn = 3
    /\ \A t \in turns : t.id = 2 /\ t.phone = step.phone

\* a flush of p that a gate suppressed
Suppressed(p) == Flushed(p) /\ step'.call = NoCall

\* what a suppressed turn leaves alone: history, safe-mode state, lead
\* intent, the last reply, the durable file, the turns and nudges in flight
SuppressedFrame(p) ==
    /\ conversationHistory' = conversationHistory
    /\ safeModeTracker' = safeModeTracker
    /\ leadStore' = leadStore
    /\ memoryFile' = memoryFile
    /\ spamTracker'[p].lastReplyAt = spamTracker[p].lastReplyAt
    /\ spamTracker'[p].lastReplyText = spamTracker[p].lastReplyText
    /\ turns' = turns /\ nudges' = nudges
    /\ spamTracker'[p].messageQueue = <<>>

\* the original statement of C36: a suppressed turn changes nothing but the
\* pending batch, which is cleared, and the follow-up timer, which is re-armed
C36_Original_SuppressedRearms ==
    [][\A p \in Phones :
        Suppressed(p) =>
            /\ SuppressedFrame(p)
            /\ followUpStore'[p].timerId = now + FOLLOWUP_T1_MS
      ]_vars

\* C36 (amended): a suppressed turn leaves history, safe-mode state, lead
\* intent and the last reply unchanged and calls no collaborator; the pending
\* batch is cleared and the follow-up cycle restarts (nudge counter 0, stage 1
\* timer armed), except that under an active override the follow-up timer is
\* cancelled and not re-armed; an override or escalation entry changes only by
\* the removal of an expired one
C36_SuppressedChangesScheduling ==
    [][\A p \in Phones :
        Suppressed(p) =>
            /\ SuppressedFrame(p)
            /\ followUpStore'[p].count = 0
            /\ followUpStore'[p].timerId =
                    IF OverrideOn(p) THEN NoTimer ELSE now + FOLLOWUP_T1_MS
            /\ \/ humanOverrideStore' = humanOverrideStore
               \/ /\ ~OverrideOn(p)
                  /\ humanOverrideStore' = [humanOverrideStore EXCEPT ![p] = NoEntry]
            /\ \/ escalationStore' = escalationStore
               \/ /\ ~EscalationOn(p)
                  /\ escalationStore' = [escalationStore EXCEPT ![p] = NoEntry]
      ]_vars

\* C36 witness: a batch was suppressed by the interval rule after a reply had
\* been recorded, and the follow-up timer was re-armed
C36_Witness ==
    /\ step.act = "flush"
    /\ step.call = NoCall
    /\ step.gates = AllGates
    /\ conversationHistory[step.phone].turns # <<>>
    /\ spamTracker[step.phone].messageQueue = <<>>
    /\ followUpStore[step.phone].timerId = now + FOLLOWUP_T1_MS

\* a history of user turns each directly followed by its assistant turn
Alternates(h) ==
    /\ Len(h) % 2 = 0
    /\ \A i \in 1..Len(h) :
          h[i].role = IF i % 2 = 1 THEN "user" ELSE "assistant"

\* C37 (as claimed): whenever no turn of a participant is in flight, the
\* participant's history alternates user, assistant, ..., starting with a user
\* turn and ending with an assistant turn
C37_HistoryAlternates ==
    \A p \in Phones :
        (\A t \in turns : t.phone # p) => Alternates(conversationHistory[p].turns)

\* C38 (as claimed): when the generation call of a turn fails, the entry the
\* rollback removes is the user turn that this turn appended: the history
\* still ends with it, as the turn left it, and the rollback gives back the
\* history the turn found
C38_RollbackRemovesOwnTurn ==
    [][\A t \in turns :
        (step'.act = "genFailed" /\ t \notin turns')
            => /\ conversationHistory[t.phone].turns =
                      Append(t.before, [role |-> "user", content |-> t.text])
               /\ conversationHistory'[t.phone].turns = t.before
      ]_vars

\* C39: the escalation deadline is not shortened.  While an escalation or
\* closing silence of a participant is active, no step replaces its
\* silencedUntil (the stored deadline only comes closer as the clock
\* advances) and no step triggers a handoff for the participant, so an
\* escalation never overwrites an active closing.
C39_DeadlineNotShortened ==
    [][\A p \in Phones :
        EscalationOn(p) =>
            /\ escalationStore'[p] =
                    IF step'.act = "tick" THEN escalationStore[p] - 1
                    ELSE escalationStore[p]
            /\ ~(step'.phone = p /\ step'.call.kind = "handoff")
      ]_vars

\* C39 witness: under an active closing silence a batch asking for a discount
\* (which also holds a trigger keyword of the safe-mode gate) was flushed and suppressed by the escalation gate; the closing deadline
\* stands
C39_Witness ==
    /\ step.act = "flush"
    /\ step.gates = <<"override", "escalation">>
    /\ escalationHit(step.combined) /\ hasTrigger(step.combined)
    /\ escalationStore[step.phone] > now + ESCALATION_MS

\* C40 (as claimed): the first-message rule is consumed only by an answered
\* turn.  When the generation call of a participant's first-ever turn fails,
\* userMsgCount is 0 afterwards; and a batch flushed for a participant whose
\* only turns failed in generation (history rolled back to empty, nothing ever
\* sent) passes the safe-mode gate whatever its text
C40_FirstMessageRuleKept ==
    [][/\ \A t \in turns :
            (step'.act = "genFailed" /\ t \notin turns' /\ t.first /\ t.alone)
                => safeModeTracker'[t.phone].userMsgCount = 0
       /\ \A p \in Phones :
            (/\ Flushed(p)
             /\ conversationHistory[p].has /\ conversationHistory[p].turns = <<>>
             /\ \A t \in turns : t.phone # p
             /\ spamTracker[p].lastReplyText = NoMsg
             /\ ~safeModeTracker[p].lastSenderWasUs
             /\ ~OverrideOn(p) /\ ~EscalationOn(p))
                => step'.gates = AllGates
      ]_vars

====
